---- MODULE Spec2Model ----
(***************************************************************************)
(* Allele code assignment (scripts/assignAlleleCodes_py3.6.py): the        *)
(* nomenclature tree, the placement and merge procedure CalcName, the      *)
(* allele-call store, the tree's JSON form and the run controller.         *)
(*                                                                         *)
(* Distances are percentages 100 * nDiff / nCommon.  They are kept exact   *)
(* as integers in units of 1/Scale percent, Scale being a common multiple  *)
(* of every possible nCommon, so that no rounding enters a comparison.     *)
(***************************************************************************)
EXTENDS Integers, Sequences, FiniteSets, TLC

\* ------------------------------------------------------------------ bounds

\* Keys of the batch, in row order; MaxKeys rows are processed by one run.
MaxKeys == 4

KeyName(i) == <<"K", i>>

AllKeys == {KeyName(i) : i \in 1..MaxKeys}

\* Allele profiles a batch row may carry (core locus count 5, 0 = missing).
Profiles ==
  { <<1, 1, 1, 1, 1>>,
    <<1, 1, 1, 1, 2>>,
    <<1, 1, 1, 1, 0>>,
    <<2, 2, 2, 2, 1>>,
    <<1, 1, 2, 2, 1>>,
    <<0, 0, 0, 1, 1>> }

LocusCount == Len(CHOOSE p \in Profiles : TRUE)

RECURSIVE Gcd(_, _)
Gcd(a, b) == IF b = 0 THEN a ELSE Gcd(b, a % b)

RECURSIVE LcmUpTo(_)
LcmUpTo(n) == IF n <= 1 THEN 1 ELSE LET m == LcmUpTo(n - 1) IN (m * n) \div Gcd(m, n)

\* Fixed-point denominator of the distances.
Scale == LcmUpTo(LocusCount)

\* thresholds[prefix], in percent, largest first; its length is Tree.DEPTH.
Thresholds == <<50, 10>>

DEPTH == Len(Thresholds)

\* minpres, in percent.  The source's 0.95 on 1343..3002 loci admits a few
\* missing loci; on 5 loci the same role is played by 80 (one missing locus).
minpres == 80

\* The corePercent every CalcName of a run is called with (Calculator._minPres).
VARIABLE corePercent

\* A presence cutoff that lets a profile miss two loci of five.
LowPres == 60

None == <<"None">>

NoParent == -1

\* ------------------------------------------------------------ sequences

Last(s) == s[Len(s)]

Front(s) == SubSeq(s, 1, Len(s) - 1)

Range(s) == {s[i] : i \in 1..Len(s)}

Reverse(s) == [i \in 1..Len(s) |-> s[Len(s) + 1 - i]]

RECURSIVE SeqMax(_)
SeqMax(s) == IF Len(s) = 1 THEN s[1]
             ELSE LET m == SeqMax(Tail(s)) IN IF s[1] >= m THEN s[1] ELSE m

SetMax(S) == CHOOSE x \in S : \A y \in S : y <= x

RECURSIVE Perms(_)
Perms(S) == IF S = {} THEN {<<>>}
            ELSE UNION {{<<x>> \o p : p \in Perms(S \ {x})} : x \in S}

\* The keys of a dict filled in the order of s.
Dedupe(s) ==
  LET keep == {i \in 1..Len(s) : \A j \in 1..(i - 1) : s[j] # s[i]}
      RECURSIVE Pick(_)
      Pick(i) == IF i > Len(s) THEN <<>>
                 ELSE (IF i \in keep THEN <<s[i]>> ELSE <<>>) \o Pick(i + 1)
  IN  Pick(1)

RECURSIVE Flatten(_)
Flatten(ss) == IF ss = <<>> THEN <<>> ELSE ss[1] \o Flatten(Tail(ss))

\* ------------------------------------------------------------- distance

\* A GetDistance that counts the loci called in the first profile.
GetDistance_CalledInFirst(p1, p2) ==
  LET nCommon == Cardinality({i \in 1..Len(p1) : p1[i] > 0})
      nDiff   == Cardinality({i \in 1..Len(p1) :
                                p1[i] # 0 /\ p2[i] # 0 /\ p1[i] # p2[i]})
  IN  IF nCommon # 0 THEN (100 * nDiff * Scale) \div nCommon ELSE 100 * Scale

\* GetDistance: percent of the jointly called loci that differ, 100 when no
\* locus is called in both.
GetDistance(p1, p2) ==
  LET nCommon == Cardinality({i \in 1..Len(p1) : p1[i] > 0 /\ p2[i] > 0})
      nDiff   == Cardinality({i \in 1..Len(p1) :
                                p1[i] # 0 /\ p2[i] # 0 /\ p1[i] # p2[i]})
  IN  IF nCommon # 0 THEN (100 * nDiff * Scale) \div nCommon ELSE 100 * Scale

\* ----------------------------------------------------------------- nodes
\* The tree is an arena: nodes maps a handle to a Node or NamedNode object.
\* children is the _children dict in insertion order, as <<key, handle>>
\* pairs; named is the _namedChildren dict's keys in insertion order; cached
\* tells whether _entryKeys is a list (entryKeys) or None.

\* Node.__init__ / NamedNode.__init__ (wgst is filled in by the caller, who
\* knows the arena).
NewNode(id, level, parent, isNamed, wgst) ==
  [ID |-> id, level |-> level, parent |-> parent, children |-> <<>>,
   diameter |-> 0, preferred |-> None, cached |-> FALSE, entryKeys |-> <<>>,
   isNamed |-> isNamed, named |-> <<>>, wgst |-> wgst]

\* Tree.__init__ : the head node Node(1, 0, None).
EmptyTree == (0 :> NewNode(1, 0, NoParent, FALSE, <<>>))

GetChildrenKeys(ns, h) == [i \in 1..Len(ns[h].children) |-> ns[h].children[i][1]]

GetChildrenNodes(ns, h) == [i \in 1..Len(ns[h].children) |-> ns[h].children[i][2]]

HasChild(ns, h, id) == \E i \in 1..Len(ns[h].children) : ns[h].children[i][1] = id

\* Node.GetChild: the handle under key id (callers test HasChild first where
\* the source would get None).
GetChild(ns, h, id) ==
  ns[h].children[CHOOSE i \in 1..Len(ns[h].children) : ns[h].children[i][1] = id][2]

\* Node.RTraverse: ids from the node up to, not including, the head node.
RECURSIVE RTraverse(_, _)
RTraverse(ns, h) ==
  IF ns[h].parent = NoParent THEN <<>>
  ELSE <<ns[h].ID>> \o RTraverse(ns, ns[h].parent)

\* Node.TotalChildCount
TotalChildCount(ns, h) == Len(ns[h].children) + Len(ns[h].named)

\* Node.NTraverse: as RTraverse, with -1 for every node holding one child
\* (or one key), the head node included.
RECURSIVE NTraverse(_, _)
NTraverse(ns, h) ==
  LET me == IF TotalChildCount(ns, h) = 1 THEN -1 ELSE ns[h].ID
  IN  IF ns[h].parent = NoParent THEN <<me>>
      ELSE <<me>> \o NTraverse(ns, ns[h].parent)

\* Node.DFSNamed: the NamedNodes at or below h, in the order the source's
\* stack (pop from the end) yields them.
RECURSIVE DFSStack(_, _)
DFSStack(ns, toCheck) ==
  IF toCheck = <<>> THEN <<>>
  ELSE LET ob == Last(toCheck) rest == Front(toCheck)
       IN  IF ns[ob].isNamed THEN <<ob>> \o DFSStack(ns, rest)
           ELSE DFSStack(ns, rest \o GetChildrenNodes(ns, ob))

DFSNamed(ns, h) ==
  IF ns[h].isNamed THEN <<h>> ELSE DFSStack(ns, GetChildrenNodes(ns, h))

\* Node.iter_entrykeys
IterEntryKeys(ns, h) ==
  LET nn == DFSNamed(ns, h)
  IN  Flatten([i \in 1..Len(nn) |-> ns[nn[i]].named])

\* Node.EntryKeys (getter): the cached list, computed on first use.
EntryKeys(ns, h) == IF ns[h].cached THEN ns[h].entryKeys ELSE IterEntryKeys(ns, h)

\* The getter's side effect on the node.
Touch(ns, h) ==
  IF ns[h].cached THEN ns
  ELSE [ns EXCEPT ![h].cached = TRUE, ![h].entryKeys = IterEntryKeys(ns, h)]

\* Node.Traverse: the handle reached by walking ids from h, or NoParent
\* where the source returns None.
RECURSIVE Traverse(_, _, _)
Traverse(ns, h, ids) ==
  IF ~HasChild(ns, h, ids[1]) THEN NoParent
  ELSE IF Len(ids) = 1 THEN GetChild(ns, h, ids[1])
  ELSE Traverse(ns, GetChild(ns, h, ids[1]), Tail(ids))


\* ----------------------------------------------------------------- merge
\* Names are the Tree._names dict: a function from the named keys to id
\* lists.  (The source lets _names[key] share the list object of a
\* NamedNode's _wgst; every in-place change of a _wgst, in ValidateNames, is
\* followed by FinalizeName for all keys of that node, so the sharing is not
\* observable and the lists are kept as values.)

\* Tree.GetName: _names.setdefault(key, []).
GetName(names, key) == IF key \in DOMAIN names THEN names[key] ELSE <<>>

\* Tree.GetPart
GetPart(names, key, level) ==
  LET n == GetName(names, key)
  IN  SubSeq(n, 1, IF Len(n) < level THEN Len(n) ELSE level)

SetName(names, key, name) ==
  [k \in DOMAIN names \cup {key} |-> IF k = key THEN name ELSE names[k]]

\* The size MergeNodes gives a node: the keys in the NamedNodes below it.
MergeSize(ns, h) ==
  LET nn == DFSNamed(ns, h)
      RECURSIVE Sum(_)
      Sum(i) == IF i = 0 THEN 0 ELSE TotalChildCount(ns, nn[i]) + Sum(i - 1)
  IN  Sum(Len(nn))

\* max(minObjs, key=size): the first node of allNodes of the largest size.
PickMaxObj(ns, allNodes) ==
  LET best == SetMax({MergeSize(ns, allNodes[i]) : i \in 1..Len(allNodes)})
  IN  allNodes[CHOOSE i \in 1..Len(allNodes) :
                 /\ MergeSize(ns, allNodes[i]) = best
                 /\ \A j \in 1..(i - 1) : MergeSize(ns, allNodes[j]) # best]

\* Node.DeleteChild(ID) on node h; the deleted object leaves the arena.
DeleteChild(ns, h, id) ==
  LET gone == GetChild(ns, h, id)
      kept == SelectSeq(ns[h].children, LAMBDA c : c[1] # id)
  IN  [x \in DOMAIN ns \ {gone} |->
         IF x = h THEN [ns[x] EXCEPT !.children = kept] ELSE ns[x]]

\* A merge of NamedNodes that deletes the other nodes with their keys.
MergeNamed_DropsKeys(ns, self, maxObj, rest) ==
  [x \in DOMAIN ns \ Range(rest) |->
     IF x = self
     THEN [ns[x] EXCEPT !.children = SelectSeq(@, LAMBDA c : c[2] \notin Range(rest))]
     ELSE ns[x]]

\* MergeNodes, level DEPTH - 1: the keys of node n go to maxObj, n is deleted.
RECURSIVE MergeNamed(_, _, _, _)
MergeNamed(ns, self, maxObj, rest) ==
  IF rest = <<>> THEN ns
  ELSE LET n     == rest[1]
           fresh == SelectSeq(ns[n].named, LAMBDA k : k \notin Range(ns[maxObj].named))
           ns1   == [ns EXCEPT ![maxObj].named = @ \o fresh]
       IN  MergeNamed(DeleteChild(ns1, self, ns1[n].ID), self, maxObj, Tail(rest))

\* MergeNodes, other levels: the children of node n get the ids toStart,
\* toStart + 1, ... and maxObj as parent; n is deleted.
RECURSIVE MergeInner(_, _, _, _, _)
MergeInner(ns, self, maxObj, rest, toStart) ==
  IF rest = <<>> THEN ns
  ELSE LET n    == rest[1]
           kids == GetChildrenNodes(ns, n)
           moved == [i \in 1..Len(kids) |-> <<toStart + i - 1, kids[i]>>]
           ns1  == [x \in DOMAIN ns |->
                      IF x = maxObj THEN [ns[x] EXCEPT !.children = @ \o moved]
                      ELSE IF x \in Range(kids)
                        THEN [ns[x] EXCEPT
                                !.ID = toStart - 1 +
                                       (CHOOSE i \in 1..Len(kids) : kids[i] = x),
                                !.parent = maxObj]
                      ELSE ns[x]]
       IN  MergeInner(DeleteChild(ns1, self, ns1[n].ID), self, maxObj,
                      Tail(rest), toStart + Len(kids))

\* What MergeNodes needs in order not to raise: every id names a child, each
\* absorbed node is held under its own ID, and (inner levels) every node to
\* merge has children.
MergeOk(ns, self, ids) ==
  /\ \A i \in 1..Len(ids) : HasChild(ns, self, ids[i])
  /\ \A i \in 1..Len(ids) :
       LET n == GetChild(ns, self, ids[i])
       IN  /\ ns[n].ID = ids[i]
           /\ ns[self].level # DEPTH - 1 => ns[n].children # <<>>

\* A ValidateNames that is run on every NamedNode of the tree and numbers
\* the last level by the node's place among its parent's children.
ValidateAll_ByPlace(ns, maxObj) ==
  LET place(x) == CHOOSE i \in 1..Len(ns[ns[x].parent].children) :
                    ns[ns[x].parent].children[i][2] = x
  IN  [x \in DOMAIN ns |->
         IF ns[x].isNamed
         THEN [ns[x] EXCEPT !.wgst = Front(Reverse(RTraverse(ns, x))) \o <<place(x)>>]
         ELSE ns[x]]

\* NamedNode.ValidateNames for every NamedNode below maxObj.
ValidateAll(ns, maxObj) ==
  LET nn == Range(DFSNamed(ns, maxObj))
  IN  [x \in DOMAIN ns |->
         IF x \in nn THEN [ns[x] EXCEPT !.wgst = Reverse(RTraverse(ns, x))]
         ELSE ns[x]]

\* A MergeNodes that leaves the names map as it was.
FinalizeAll_Skipped(ns, names, maxObj) == names

\* Tree.FinalizeName for every key below maxObj (after ValidateAll).
FinalizeAll(ns, names, maxObj) ==
  LET nn   == Range(DFSNamed(ns, maxObj))
      keys == UNION {Range(ns[t].named) : t \in nn}
      home(k) == CHOOSE t \in nn : k \in Range(ns[t].named)
  IN  [k \in DOMAIN names \cup keys |->
         IF k \in keys THEN ns[home(k)].wgst ELSE names[k]]

\* The assertion of FinalizeName: Traverse(name) is a NamedNode holding key.
FinalizeOk(ns, maxObj) ==
  \A t \in Range(DFSNamed(ns, maxObj)) :
    ns[t].named # <<>> =>
      LET r == Traverse(ns, 0, ns[t].wgst)
      IN  /\ r # NoParent
          /\ ns[r].isNamed
          /\ Range(ns[t].named) \subseteq Range(ns[r].named)

\* Node.MergeNodes(nodes) on node self: [ok, ns, names, maxObj].
MergeNodes(ns, names, self, ids) ==
  IF ~MergeOk(ns, self, ids)
  THEN [ok |-> FALSE, ns |-> ns, names |-> names, maxObj |-> NoParent]
  ELSE
    LET allNodes == Dedupe([i \in 1..Len(ids) |-> GetChild(ns, self, ids[i])])
        maxObj   == PickMaxObj(ns, allNodes)
        rest     == SelectSeq(allNodes, LAMBDA n : n # maxObj)
        ns1 == IF ns[self].level = DEPTH - 1
               THEN MergeNamed(ns, self, maxObj, rest)
               ELSE MergeInner(ns, self, maxObj, rest,
                               SeqMax(GetChildrenKeys(ns, maxObj)) + 1)
        ns2 == ValidateAll(ns1, maxObj)
    IN  [ok |-> FinalizeOk(ns2, maxObj), ns |-> ns2,
         names |-> FinalizeAll(ns2, names, maxObj), maxObj |-> maxObj]


\* -------------------------------------------------------------- CalcName

\* thresholds.sort(key=lambda x: -x)
RECURSIVE SortDesc(_)
SortDesc(s) ==
  IF s = <<>> THEN <<>>
  ELSE LET m == SeqMax(s)
           i == CHOOSE j \in 1..Len(s) : s[j] = m /\ \A k \in 1..(j - 1) : s[k] # m
       IN  <<m>> \o SortDesc(SubSeq(s, 1, i - 1) \o SubSeq(s, i + 1, Len(s)))

\* GetDistanceToNamedEntry (its memo returns what GetDistance returns).
KeyDistance(calls, unNamedEntryKey, namedEntryKey) ==
  GetDistance(calls[namedEntryKey], calls[unNamedEntryKey])

Tau(level) == SortDesc(Thresholds)[level] * Scale

\* The second test of IsInCluster: too far from the founder to be looked at.
FastReject(ns, calls, key, h, level) ==
  KeyDistance(calls, key, ns[h].preferred) - ns[h].diameter
    - 2 * (100 - corePercent) * Scale > Tau(level)

\* An IsInCluster that takes every node it cannot reject at once.
IsInCluster_NoScan(ns, calls, key, h, level) ==
  IF KeyDistance(calls, key, ns[h].preferred) <= Tau(level) THEN TRUE
  ELSE ~FastReject(ns, calls, key, h, level)

\* IsInCluster
IsInCluster(ns, calls, key, h, level) ==
  IF KeyDistance(calls, key, ns[h].preferred) <= Tau(level) THEN TRUE
  ELSE IF FastReject(ns, calls, key, h, level) THEN FALSE
  ELSE \E m \in Range(EntryKeys(ns, h)) : KeyDistance(calls, key, m) <= Tau(level)

\* IsInCluster reads node.EntryKeys exactly when the first two tests fail.
ReadsEntryKeys(ns, calls, key, h, level) ==
  /\ KeyDistance(calls, key, ns[h].preferred) > Tau(level)
  /\ ~FastReject(ns, calls, key, h, level)

RECURSIVE TouchAll(_, _)
TouchAll(ns, hs) == IF hs = <<>> THEN ns ELSE TouchAll(Touch(ns, hs[1]), Tail(hs))

\* GetMaxDistanceToNode
GetMaxDistanceToNode(ns, calls, entryKey, h) ==
  SetMax({KeyDistance(calls, entryKey, m) : m \in Range(EntryKeys(ns, h))})

\* A NewChildNode that numbers the new child by the count of its siblings.
NewChildNode_CountIds(ns, cur) ==
  LET nextCluster == Len(ns[cur].children) + 1
      h     == SetMax(DOMAIN ns) + 1
      named == ns[cur].level = DEPTH - 1
      fresh == NewNode(nextCluster, ns[cur].level + 1, cur, named, <<>>)
      ns1   == [x \in DOMAIN ns \cup {h} |->
                  IF x = h THEN fresh
                  ELSE IF x = cur
                    THEN [ns[x] EXCEPT !.children = @ \o <<<<nextCluster, h>>>>]
                  ELSE ns[x]]
  IN  [ns |-> IF named
              THEN [ns1 EXCEPT ![h].wgst = Reverse(RTraverse(ns1, h))]
              ELSE ns1,
       h  |-> h]

\* Node.NewChildNode on node cur: [ns, h] with h the new child's handle.
NewChildNode(ns, cur) ==
  LET nextCluster == IF Len(ns[cur].children) = 0 THEN 1
                     ELSE SeqMax(GetChildrenKeys(ns, cur)) + 1
      h     == SetMax(DOMAIN ns) + 1
      named == ns[cur].level = DEPTH - 1
      fresh == NewNode(nextCluster, ns[cur].level + 1, cur, named, <<>>)
      ns1   == [x \in DOMAIN ns \cup {h} |->
                  IF x = h THEN fresh
                  ELSE IF x = cur
                    THEN [ns[x] EXCEPT !.children = @ \o <<<<nextCluster, h>>>>]
                  ELSE ns[x]]
  IN  [ns |-> IF named
              THEN [ns1 EXCEPT ![h].wgst = Reverse(RTraverse(ns1, h))]
              ELSE ns1,
       h  |-> h]

\* One state of a placement under way.  steps records, per level, what was
\* done and the node's founder and members before the key came; for a merge
\* also the closest clusters as they were added to the set, the order the
\* set gave them back in, whether several matching nodes were largest, and
\* the id, the node and the number of keys of every matching child.
Failed(st) == [st EXCEPT !.failed = TRUE]

\* A single-match branch that forgets to extend the node's member list.
StepSingle_NoAppend(st, calls, key, level, matchingNodes, pattern) ==
  LET h   == matchingNodes[1]
      ns1 == Touch(st.ns, h)
      d   == KeyDistance(calls, key, ns1[h].preferred)
  IN  [st EXCEPT
         !.names = SetName(@, key, GetName(@, key) \o <<Last(pattern)>>),
         !.cur = h,
         !.ns = [ns1 EXCEPT ![h].diameter = IF @ >= d THEN @ ELSE d],
         !.steps = @ \o <<[kind |-> "single", node |-> h, level |-> level,
                           founder |-> st.ns[h].preferred,
                           members |-> Range(IterEntryKeys(st.ns, h)),
                           inserted |-> <<>>, order |-> <<>>, tie |-> FALSE]>>]

\* The level loop's branch for exactly one closest cluster.
StepSingle(st, calls, key, level, matchingNodes, pattern) ==
  LET h   == matchingNodes[1]
      ns1 == Touch(st.ns, h)
      d   == KeyDistance(calls, key, ns1[h].preferred)
  IN  [st EXCEPT
         !.names = SetName(@, key, GetName(@, key) \o <<Last(pattern)>>),
         !.cur = h,
         !.ns = [ns1 EXCEPT
                   ![h].diameter = IF @ >= d THEN @ ELSE d,
                   ![h].entryKeys = @ \o <<key>>],
         !.steps = @ \o <<[kind |-> "single", node |-> h, level |-> level,
                           founder |-> st.ns[h].preferred,
                           members |-> Range(IterEntryKeys(st.ns, h)),
                           inserted |-> <<>>, order |-> <<>>, tie |-> FALSE]>>]

\* The branch for no closest cluster.
StepNew(st, key, level) ==
  LET r == NewChildNode(st.ns, st.cur)
  IN  [st EXCEPT
         !.names = SetName(@, key, GetName(@, key) \o <<r.ns[r.h].ID>>),
         !.cur = r.h,
         !.ns = [r.ns EXCEPT ![r.h].diameter = 0, ![r.h].preferred = key,
                             ![r.h].cached = TRUE, ![r.h].entryKeys = <<key>>],
         !.steps = @ \o <<[kind |-> "new", node |-> r.h, level |-> level,
                           founder |-> key, members |-> {},
                           inserted |-> <<>>, order |-> <<>>, tie |-> FALSE]>>]

\* A merge branch that takes the new founder from the first child of the
\* current node, matching or not.
StepMerge_FirstChild(st, calls, key, level, matchingNodes, toMerge) ==
  LET ns1     == TouchAll(st.ns, matchingNodes)
      newPreferred == ns1[GetChildrenNodes(ns1, st.cur)[1]].preferred
      entryKeys == <<key>> \o
        Flatten([i \in 1..Len(matchingNodes) |-> ns1[matchingNodes[i]].entryKeys])
      m == MergeNodes(ns1, st.names, st.cur, toMerge)
  IN  IF ~m.ok THEN Failed(st)
      ELSE [st EXCEPT
              !.names = SetName(m.names, key, GetName(m.names, key) \o <<m.ns[m.maxObj].ID>>),
              !.cur = m.maxObj,
              !.ns = [m.ns EXCEPT ![m.maxObj].preferred = newPreferred,
                                  ![m.maxObj].cached = TRUE,
                                  ![m.maxObj].entryKeys = entryKeys],
              !.steps = @ \o <<[kind |-> "merge", node |-> m.maxObj, level |-> level,
                                founder |-> st.ns[m.maxObj].preferred,
                                members |-> Range(IterEntryKeys(st.ns, m.maxObj)),
                                inserted |-> <<>>, order |-> toMerge, tie |-> FALSE,
                                matched |-> {[id |-> toMerge[i],
                                              h |-> GetChild(st.ns, st.cur, toMerge[i]),
                                              size |-> MergeSize(st.ns,
                                                GetChild(st.ns, st.cur, toMerge[i]))] :
                                             i \in 1..Len(toMerge)}]>>]

\* The branch for several closest clusters, toMerge being the closest
\* clusters' last ids in the order the set closestClusters yields them.
StepMerge(st, calls, key, level, matchingNodes, toMerge) ==
  LET ns1     == TouchAll(st.ns, matchingNodes)
      size(i) == Len(ns1[matchingNodes[i]].entryKeys)
      maxSize == SetMax({size(i) : i \in 1..Len(matchingNodes)})
      nodePickIdx == CHOOSE i \in 1..Len(matchingNodes) :
                       size(i) = maxSize /\ \A j \in 1..(i - 1) : size(j) # maxSize
      newPreferred == ns1[matchingNodes[nodePickIdx]].preferred
      diameter == SetMax(
        {ns1[matchingNodes[nodePickIdx]].diameter,
         KeyDistance(calls, key, newPreferred)}
        \cup {GetMaxDistanceToNode(ns1, calls, newPreferred, matchingNodes[i]) :
                i \in 1..Len(matchingNodes) \ {nodePickIdx}})
      entryKeys == <<key>> \o
        Flatten([i \in 1..Len(matchingNodes) |-> ns1[matchingNodes[i]].entryKeys])
      m == MergeNodes(ns1, st.names, st.cur, toMerge)
      \* the closest clusters in the order they were added to the set
      inserted == Dedupe([i \in 1..Len(matchingNodes) |->
                            GetPart(st.names, st.ns[matchingNodes[i]].preferred, level)])
  IN  IF ~m.ok THEN Failed(st)
      ELSE [st EXCEPT
              !.names = SetName(m.names, key, GetName(m.names, key) \o <<m.ns[m.maxObj].ID>>),
              !.cur = m.maxObj,
              !.ns = [m.ns EXCEPT ![m.maxObj].preferred = newPreferred,
                                  ![m.maxObj].diameter = diameter,
                                  ![m.maxObj].cached = TRUE,
                                  ![m.maxObj].entryKeys = entryKeys],
              !.steps = @ \o <<[kind |-> "merge", node |-> m.maxObj, level |-> level,
                                founder |-> st.ns[m.maxObj].preferred,
                                members |-> Range(IterEntryKeys(st.ns, m.maxObj)),
                                inserted |-> inserted, order |-> toMerge,
                                tie |-> Cardinality({i \in 1..Len(matchingNodes) :
                                                       size(i) = maxSize}) > 1,
                                matched |-> {[id |-> toMerge[i],
                                              h |-> GetChild(st.ns, st.cur, toMerge[i]),
                                              size |-> MergeSize(st.ns,
                                                GetChild(st.ns, st.cur, toMerge[i]))] :
                                             i \in 1..Len(toMerge)}]>>]

\* One pass of the level loop: the states it can end in (one for each order
\* in which the set closestClusters can be iterated).
CalcLevel(st, calls, key, level) ==
  LET kids == GetChildrenNodes(st.ns, st.cur)
      matchingNodes == SelectSeq(kids, LAMBDA h : IsInCluster(st.ns, calls, key, h, level))
      read == SelectSeq(kids, LAMBDA h : ReadsEntryKeys(st.ns, calls, key, h, level))
      st1  == [st EXCEPT !.ns = TouchAll(@, read)]
      closestClusters ==
        {GetPart(st.names, st.ns[matchingNodes[i]].preferred, level) :
           i \in 1..Len(matchingNodes)}
  IN  IF \E c \in closestClusters : c = <<>> THEN {Failed(st1)}
      ELSE IF Cardinality(closestClusters) = 1
        THEN {StepSingle(st1, calls, key, level, matchingNodes,
                         CHOOSE c \in closestClusters : TRUE)}
      ELSE IF Cardinality(closestClusters) = 0 THEN {StepNew(st1, key, level)}
      ELSE {StepMerge(st1, calls, key, level, matchingNodes,
                      [i \in 1..Len(order) |-> Last(order[i])]) :
              order \in Perms(closestClusters)}

RECURSIVE CalcLevels(_, _, _, _)
CalcLevels(sts, calls, key, level) ==
  IF level > DEPTH THEN sts
  ELSE CalcLevels(
         UNION {IF st.failed THEN {st} ELSE CalcLevel(st, calls, key, level) : st \in sts},
         calls, key, level + 1)

\* The end of CalcName: the node reached is a NamedNode, the key is added to
\* it, and the node's code is the pattern name built on the way.
Finish(st, key) ==
  IF st.failed THEN st
  ELSE IF ~st.ns[st.cur].isNamed THEN Failed(st)
  ELSE LET ns1 == [st.ns EXCEPT ![st.cur].named =
                     IF key \in Range(@) THEN @ ELSE @ \o <<key>>]
       IN  IF ns1[st.cur].wgst # GetName(st.names, key) THEN Failed(st)
           ELSE [st EXCEPT !.ns = ns1]

\* CalcName(named, tree, alleles, unNamedEntry, thresholds, corePercent): the
\* set of outcomes [ns, names, failed, steps, cur].
CalcName(ns, names, calls, key) ==
  IF Len(GetName(names, key)) # 0
  THEN {[ns |-> ns, names |-> names, cur |-> 0, failed |-> TRUE, steps |-> <<>>]}
  ELSE {Finish(st, key) :
          st \in CalcLevels({[ns |-> ns, names |-> SetName(names, key, <<>>),
                              cur |-> 0, failed |-> FALSE, steps |-> <<>>]},
                            calls, key, 1)}


\* ------------------------------------------------------ tree file (JSON)
\* json.dump writes the int keys of a children dict as decimal strings; a
\* string is kept as its sequence of digits.

RECURSIVE IntToStr(_)
IntToStr(n) == IF n < 10 THEN <<n>> ELSE IntToStr(n \div 10) \o <<n % 10>>

RECURSIVE StrToInt(_)
StrToInt(str) == IF Len(str) = 1 THEN str[1]
                 ELSE 10 * StrToInt(Front(str)) + Last(str)

\* Node.Save with NamedNode._Save: details is present (a one-element
\* sequence) exactly for a NamedNode.
RECURSIVE NodeSave(_, _)
NodeSave(ns, h) ==
  [ID |-> ns[h].ID, level |-> ns[h].level, diameter |-> ns[h].diameter,
   preferred |-> ns[h].preferred,
   children |-> [i \in 1..Len(ns[h].children) |->
                   <<IntToStr(ns[h].children[i][1]),
                     NodeSave(ns, ns[h].children[i][2])>>],
   details |-> IF ns[h].isNamed THEN <<[namedChildren |-> ns[h].named]>> ELSE <<>>]

\* Tree.Save
TreeSave(ns, names) == [names |-> names, tree |-> NodeSave(ns, 0)]

\* Node.Load with GetNode and NamedNode._Load: [ns, h], the arena with the
\* node and everything below it added, and the node's handle.
RECURSIVE NodeLoad(_, _, _)
RECURSIVE LoadChildren(_, _, _, _)

\* A Node.Load that does not read the diameter back.
NodeLoad_NoDiameter(ns, parent, info) ==
  LET h       == IF DOMAIN ns = {} THEN 0 ELSE SetMax(DOMAIN ns) + 1
      isNamed == info.level = DEPTH
      ns0     == [x \in DOMAIN ns \cup {h} |->
                    IF x = h THEN NewNode(info.ID, info.level, parent, isNamed, <<>>)
                    ELSE ns[x]]
      ns1     == [ns0 EXCEPT
                    ![h].wgst = IF isNamed THEN Reverse(RTraverse(ns0, h)) ELSE <<>>,
                    ![h].preferred = info.preferred,
                    ![h].named = IF isNamed /\ info.details # <<>>
                                 THEN Dedupe(info.details[1].namedChildren)
                                 ELSE <<>>]
  IN  [ns |-> LoadChildren(ns1, h, info.children, 1), h |-> h]

NodeLoad(ns, parent, info) ==
  LET h       == IF DOMAIN ns = {} THEN 0 ELSE SetMax(DOMAIN ns) + 1
      isNamed == info.level = DEPTH
      ns0     == [x \in DOMAIN ns \cup {h} |->
                    IF x = h THEN NewNode(info.ID, info.level, parent, isNamed, <<>>)
                    ELSE ns[x]]
      ns1     == [ns0 EXCEPT
                    ![h].wgst = IF isNamed THEN Reverse(RTraverse(ns0, h)) ELSE <<>>,
                    ![h].diameter = info.diameter,
                    ![h].preferred = info.preferred,
                    ![h].named = IF isNamed /\ info.details # <<>>
                                 THEN Dedupe(info.details[1].namedChildren)
                                 ELSE <<>>]
  IN  [ns |-> LoadChildren(ns1, h, info.children, 1), h |-> h]

LoadChildren(ns, h, infos, i) ==
  IF i > Len(infos) THEN ns
  ELSE LET r   == NodeLoad(ns, h, infos[i][2])
           key == StrToInt(infos[i][1])
           old == r.ns[h].children
           new == IF \E j \in 1..Len(old) : old[j][1] = key
                  THEN [j \in 1..Len(old) |->
                          IF old[j][1] = key THEN <<key, r.h>> ELSE old[j]]
                  ELSE old \o <<<<key, r.h>>>>
       IN  LoadChildren([r.ns EXCEPT ![h].children = new], h, infos, i + 1)

\* Tree.Load into a fresh Tree: [ns, names].
TreeLoad(database) ==
  [ns |-> NodeLoad(<<>>, NoParent, database.tree).ns, names |-> database.names]


\* ------------------------------------------------------------------ state

VARIABLES
  nodes,      \* Calculator._tree._tree: the arena of Node objects
  names,      \* Calculator._tree._names
  calls,      \* Calculator._alleleCalls._alleleCalls of the placing run
  belowQC,    \* Calculator._belowQC: the keys rejected by CheckCore
  row,        \* how many keys the batches have brought so far, plus one
  last,       \* the last pass of DoCalc's loop: its row and what CalcName did
  pc,         \* "rows": in the loop; "done": saved and ended; "aborted"
  treeFile,   \* tree/current/tree_<timestamp>.json
  callsFile,  \* allele_calls/current/calls.gzip
  \* Main, Run and the lock file
  lock,       \* nomenclature.lock exists
  lpc,        \* where each invocation of Main stands
  result,     \* how each invocation went
  exitStatus, \* the exit status of each invocation's process
  \* the AlleleCalls object of one process and its files
  alleleCalls,  \* _alleleCalls: key -> profile, in insertion order
  index,        \* _index: key -> (shard, slot)
  matrices,     \* _matrices: the shards loaded so far
  callsGzip,    \* calls.gzip
  indexGzip,    \* index.gzip
  matrixGzip,   \* matrix.<n>.gzip, by n
  treeKeys,     \* the keys of names in the tree file
  tnames,       \* the keys of Tree._names in the process
  added,        \* what Add has been given for the keys now stored
  saved,        \* added, as of the last Save
  lastOp,       \* the last operation on the store and what it returned
  spc,          \* "ended", "run", "saving", "aborted", "error"
  \* two runs of the engine on one batch
  batch,        \* the profiles of the batch file, in row order
  runA,         \* the first run: its tree, names, calls and row
  runB,         \* the second run
  setOrder,     \* the order a set of closest clusters is iterated in
  rerun,        \* what a second run on the batch of the first run did
  qc,           \* a profile's counts, the cutoff, and CheckCore's verdict
  \* SaveTree, step by step
  treeDir,      \* tree/current: the second in each file's name -> its state
  clock,        \* datetime.now(), in seconds
  saver,        \* the process in SaveTree: its step, _treepath, FILE_PATH
  dist,         \* two profiles and GetDistance of them, both ways
  renamed,      \* UpdateNamed on the first run's tree: the keys, the tree after
  probe,        \* IsInCluster of a new profile and a node of the first run's tree
  progress      \* DoCalc's two loops: keys named in memory and on disk, numToSave

engineVars == <<nodes, names, calls, belowQC, row, last, pc, treeFile, callsFile>>

lockVars == <<lock, lpc, result, exitStatus>>

storeVars == <<alleleCalls, index, matrices, callsGzip, indexGzip, matrixGzip,
               treeKeys, tnames, added, saved, lastOp, spc>>

auxVars == <<batch, runA, runB, setOrder, rerun, qc, treeDir, clock, saver, dist, renamed, probe, progress, corePercent>>

vars == <<engineVars, lockVars, storeVars, auxVars>>

NoRow == [kind |-> "none", key |-> None, steps |-> <<>>]

\* CheckCore: round(called / len, 2) < minpres rejects.  The quotient is
\* rounded to whole percents, a tie going to the even one.
RoundPct(num, den) ==
  LET q == (100 * num) \div den
      r == (100 * num) % den
  IN  IF 2 * r > den THEN q + 1
      ELSE IF 2 * r < den THEN q
      ELSE IF q % 2 = 0 THEN q ELSE q + 1

\* The test of CheckCore for a profile of len loci, called of them not 0,
\* and a cutoff of minPres percent.
CheckCoreAt(called, len, minPres) == RoundPct(called, len) >= minPres

CheckCore(p) ==
  CheckCoreAt(Len(p) - Cardinality({i \in 1..Len(p) : p[i] = 0}), Len(p), corePercent)

\* A row that fails CheckCore leaves the key out of the record.
FailCore_NotRecorded(bq, key) == bq

\* self._belowQC[key].append('CORE')
FailCore(bq, key) == bq \cup {key}

\* DoCalc's integrity test of the loaded tree against the loaded calls.
IntegrityOk(nm, hot) ==
  /\ \A alleleKey \in DOMAIN hot : alleleKey \in DOMAIN nm
  /\ \A treeKey \in DOMAIN nm : treeKey \in DOMAIN hot

\* The first run on an empty data directory: DoCalc writes the empty tree
\* with SaveTree and loads it; there are no calls to load.
EngineInit ==
  /\ treeFile = TreeSave(EmptyTree, <<>>)
  /\ callsFile = <<>>
  /\ nodes = TreeLoad(treeFile).ns
  /\ names = TreeLoad(treeFile).names
  /\ calls = <<>>
  /\ belowQC = {}
  /\ row = 1
  /\ last = NoRow
  /\ pc = "rows"

\* A batch row whose key has a name already is dropped from newProfiles.
DropRow ==
  /\ pc = "rows"
  /\ \E k \in DOMAIN names :
       last' = [kind |-> "dropped", key |-> k, steps |-> <<>>]
  /\ UNCHANGED <<nodes, names, calls, belowQC, row, pc, treeFile, callsFile>>
  /\ UNCHANGED <<lockVars, storeVars, auxVars>>

\* One pass of DoCalc's loop over newProfiles, for a row that fails CheckCore.
RejectRow ==
  /\ pc = "rows"
  /\ row <= MaxKeys
  /\ KeyName(row) \notin DOMAIN names
  /\ \E p \in Profiles :
       /\ ~CheckCore(p)
       /\ belowQC' = FailCore(belowQC, KeyName(row))
       /\ last' = [kind |-> "rejected", key |-> KeyName(row), steps |-> <<>>]
  /\ row' = row + 1
  /\ UNCHANGED <<nodes, names, calls, pc, treeFile, callsFile>>
  /\ UNCHANGED <<lockVars, storeVars, auxVars>>

\* One pass of the loop for a row that passes: AlleleCalls.Add, CalcName.
PlaceRow ==
  /\ pc = "rows"
  /\ row <= MaxKeys
  /\ KeyName(row) \notin DOMAIN names
  /\ \E p \in Profiles :
       /\ CheckCore(p)
       /\ KeyName(row) \notin DOMAIN calls
       /\ calls' = (KeyName(row) :> p) @@ calls
       /\ \E o \in CalcName(nodes, names, calls', KeyName(row)) :
            /\ nodes' = o.ns
            /\ names' = o.names
            /\ last' = [kind |-> "placed", key |-> KeyName(row), steps |-> o.steps]
            /\ pc' = IF o.failed THEN "aborted" ELSE "rows"
  /\ row' = row + 1
  /\ UNCHANGED <<belowQC, treeFile, callsFile>>
  /\ UNCHANGED <<lockVars, storeVars, auxVars>>

\* The final save of DoCalc: AlleleCalls.Save, then SaveTree.
FinalSave ==
  /\ pc = "rows"
  /\ callsFile' = calls
  /\ treeFile' = TreeSave(nodes, names)
  /\ pc' = "done"
  /\ UNCHANGED <<nodes, names, calls, belowQC, row, last>>
  /\ UNCHANGED <<lockVars, storeVars, auxVars>>

\* The next invocation: a fresh Calculator loads the tree and the calls and
\* tests their integrity.
StartRun ==
  /\ pc \in {"done", "aborted"}
  /\ nodes' = TreeLoad(treeFile).ns
  /\ names' = TreeLoad(treeFile).names
  /\ calls' = callsFile
  /\ belowQC' = {}
  /\ last' = NoRow
  /\ pc' = IF IntegrityOk(names', calls') THEN "rows" ELSE "aborted"
  /\ UNCHANGED <<row, treeFile, callsFile>>
  /\ UNCHANGED <<lockVars, storeVars, auxVars>>


\* ------------------------------------------------- Main and the lock file
\* Each invocation of Main is a process.  Its steps are the system calls on
\* nomenclature.lock and the stages between them; the stages' work on the
\* tree is the subject of the actions above and is not repeated here.

Procs == {"A", "B"}

\* No invocation of Main is under way.
LockIdle ==
  /\ lock = FALSE
  /\ lpc = [p \in Procs |-> "ended"]
  /\ result = [p \in Procs |-> "none"]
  /\ exitStatus = [p \in Procs |-> 0]

\* An invocation starts: the script checks its arguments and reads the config
\* file.  A missing argument or an empty locus list ends it with exit(), a
\* config file that cannot be opened with an uncaught exception; otherwise
\* Main is called, and the process ends with status 0 when Main returns.
Invoke(p) ==
  /\ lpc[p] = "ended"
  /\ \E outcome \in {"main", "exit()", "uncaught"} :
       /\ lpc' = [lpc EXCEPT ![p] = IF outcome = "main" THEN "main" ELSE "ended"]
       /\ result' = [result EXCEPT ![p] = IF outcome = "main" THEN "none" ELSE outcome]
       /\ exitStatus' = [exitStatus EXCEPT ![p] = IF outcome = "uncaught" THEN 1 ELSE 0]
  /\ UNCHANGED <<lock, engineVars, storeVars, auxVars>>

\* Main that removes the lock file it finds.
LockCheck_Unlocks(p) ==
  /\ lpc[p] = "main"
  /\ IF lock
     THEN /\ lpc' = [lpc EXCEPT ![p] = "ended"]
          /\ result' = [result EXCEPT ![p] = "refused"]
          /\ lock' = FALSE
     ELSE /\ lpc' = [lpc EXCEPT ![p] = "create"]
          /\ UNCHANGED <<result, lock>>
  /\ UNCHANGED <<exitStatus, engineVars, storeVars, auxVars>>

\* Main: os.path.exists(lockfile_path).  A lock file that is there makes Main
\* raise RuntimeError, which its own except clause logs.
LockCheck(p) ==
  /\ lpc[p] = "main"
  /\ IF lock
     THEN /\ lpc' = [lpc EXCEPT ![p] = "ended"]
          /\ result' = [result EXCEPT ![p] = "refused"]
     ELSE /\ lpc' = [lpc EXCEPT ![p] = "create"]
          /\ UNCHANGED result
  /\ UNCHANGED <<lock, exitStatus, engineVars, storeVars, auxVars>>

\* Main: open(lockfile_path, 'w'), which creates the file or truncates it.
LockCreate(p) ==
  /\ lpc[p] = "create"
  /\ lock' = TRUE
  /\ lpc' = [lpc EXCEPT ![p] = "setup"]
  /\ UNCHANGED <<result, exitStatus, engineVars, storeVars, auxVars>>

\* Main: Setup() and its closure.  An AssertionError of Setup goes to the
\* except clause of Main.
SetupRun(p) ==
  /\ lpc[p] = "setup"
  /\ \E ok \in BOOLEAN :
       IF ok
       THEN /\ lpc' = [lpc EXCEPT ![p] = "docalc"]
            /\ UNCHANGED result
       ELSE /\ lpc' = [lpc EXCEPT ![p] = "ended"]
            /\ result' = [result EXCEPT ![p] = "setup error"]
  /\ UNCHANGED <<lock, exitStatus, engineVars, storeVars, auxVars>>

\* RunCalc: self.DoCalc(args) returns or raises (a failed load, the
\* integrity test, an I/O error of a save, a KeyboardInterrupt).
DoCalc(p) ==
  /\ lpc[p] = "docalc"
  /\ \E ok \in BOOLEAN :
       /\ lpc' = [lpc EXCEPT ![p] = IF ok THEN "calc else" ELSE "calc except"]
       /\ result' = [result EXCEPT ![p] = IF ok THEN "clean" ELSE "calc error"]
  /\ UNCHANGED <<lock, exitStatus, engineVars, storeVars, auxVars>>

\* RunCalc, else clause: os.remove(lockfile_path).  Without the file it
\* raises; the exception leaves Run and is logged by Main.
RunCalcElse(p) ==
  /\ lpc[p] = "calc else"
  /\ IF lock
     THEN /\ lock' = FALSE
          /\ lpc' = [lpc EXCEPT ![p] = "refresh"]
          /\ UNCHANGED result
     ELSE /\ lpc' = [lpc EXCEPT ![p] = "ended"]
          /\ result' = [result EXCEPT ![p] = "remove error"]
          /\ UNCHANGED lock
  /\ UNCHANGED <<exitStatus, engineVars, storeVars, auxVars>>

\* RunCalc, except clause: the error is logged and RunCalc returns.
RunCalcExcept(p) ==
  /\ lpc[p] = "calc except"
  /\ lpc' = [lpc EXCEPT ![p] = "refresh"]
  /\ UNCHANGED <<lock, result, exitStatus, engineVars, storeVars, auxVars>>

\* Run: calc.DoRefresh({}), os.remove(lockfile_path) in a try whose except
\* clause passes.
DoRefresh(p) ==
  /\ lpc[p] = "refresh"
  /\ lock' = FALSE
  /\ lpc' = [lpc EXCEPT ![p] = "ended"]
  /\ UNCHANGED <<result, exitStatus, engineVars, storeVars, auxVars>>

Main(p) ==
  \/ Invoke(p)
  \/ LockCheck(p)
  \/ LockCreate(p)
  \/ SetupRun(p)
  \/ DoCalc(p)
  \/ RunCalcElse(p)
  \/ RunCalcExcept(p)
  \/ DoRefresh(p)

LockNext == \E p \in Procs : Main(p)


\* ------------------------------------------------------- allele-call store
\* One AlleleCalls object with its files, under any order of Add, GetCalls
\* and Save, and the start of DoCalc in a fresh process: Tree.Load,
\* AlleleCalls.Load and the integrity test.

\* BLOCKSIZE of _Convert (1000 in the source): so many profiles make a shard.
BLOCKSIZE == 2

StoreProfiles == {<<1, 1, 1, 1, 1>>, <<1, 1, 1, 1, 2>>}

\* A dict is a sequence of <<key, value>> in insertion order.  Keys are str
\* objects, modelled by KeyName; an int used as a subscript is IntObj.
IntObj(i) == <<"int", i>>

DictKeys(d) == {d[i][1] : i \in 1..Len(d)}

DictValue(d, k) == d[CHOOSE i \in 1..Len(d) : d[i][1] = k][2]

\* d[k]: the value, or KeyError.
Subscript(d, k) ==
  IF k \in DictKeys(d) THEN [status |-> "value", val |-> DictValue(d, k)]
  ELSE [status |-> "KeyError", val |-> <<>>]

\* d.get(k, None)
DictGet(d, k) ==
  IF k \in DictKeys(d) THEN [status |-> "value", val |-> DictValue(d, k)]
  ELSE [status |-> "absent", val |-> <<>>]

\* An entry of _matrices: a loaded shard, or None.
Shard(d) == [loaded |-> TRUE, dict |-> d]

NoShard == [loaded |-> FALSE, dict |-> <<>>]

\* _Convert: while more than BLOCKSIZE profiles are in _alleleCalls, the
\* first BLOCKSIZE of them become shard number len(_matrices), written to
\* matrix.<number>.gzip, and their _index entries the tuples (number, i).
RECURSIVE Convert(_)
Convert(a) ==
  IF Len(a.alleleCalls) <= BLOCKSIZE THEN a
  ELSE LET matrix == SubSeq(a.alleleCalls, 1, BLOCKSIZE)
           n      == Len(a.matrices)
           slot(k) == (CHOOSE i \in 1..BLOCKSIZE : matrix[i][1] = k) - 1
       IN  Convert(
             [alleleCalls |-> SubSeq(a.alleleCalls, BLOCKSIZE + 1, Len(a.alleleCalls)),
              index |-> [k \in DOMAIN a.index \cup DictKeys(matrix) |->
                           IF k \in DictKeys(matrix)
                           THEN [form |-> "tuple", shard |-> n, slot |-> slot(k)]
                           ELSE a.index[k]],
              matrices |-> Append(a.matrices, Shard(matrix)),
              matrixGzip |-> [m \in DOMAIN a.matrixGzip \cup {n} |->
                                IF m = n THEN matrix ELSE a.matrixGzip[m]]])

\* str(self._index).replace("'", '"') is JSON only when no value is a tuple:
\* a tuple is written (0, 1), a list [0, 1].
IsJson(entries) == \A k \in DOMAIN entries : entries[k].form = "list"

\* json.load of index.gzip: every value a list.
IndexLoaded(entries) ==
  [k \in DOMAIN entries |-> [entries[k] EXCEPT !.form = "list"]]

\* _LoadMatrix(i): _matrices padded with None up to i, matrix.<i>.gzip read.
LoadMatrix(ms, files, i) ==
  LET padded == [j \in 1..(IF Len(ms) > i THEN Len(ms) ELSE i + 1) |->
                   IF j <= Len(ms) THEN ms[j] ELSE NoShard]
  IN  IF i \in DOMAIN files
      THEN [ok |-> TRUE, matrices |-> [padded EXCEPT ![i + 1] = Shard(files[i])]]
      ELSE [ok |-> FALSE, matrices |-> padded]

\* GetCalls(key): [matrices, status, val].
GetCalls(a, ms, idx, files, key) ==
  IF key \in DOMAIN idx
  THEN LET i == idx[key].shard
           l == IF i >= Len(ms) \/ ~ms[i + 1].loaded
                THEN LoadMatrix(ms, files, i)
                ELSE [ok |-> TRUE, matrices |-> ms]
       IN  IF ~l.ok
           THEN [matrices |-> l.matrices, status |-> "IOError", val |-> <<>>]
           ELSE [matrices |-> l.matrices] @@
                Subscript(l.matrices[i + 1].dict, IntObj(idx[key].slot))
  ELSE [matrices |-> ms] @@ DictGet(a, key)

\* Add without its assertions: the dict entry is set whatever is there.
Add_Overwrite(a, idx, key, profile) ==
  [status |-> "added",
   alleleCalls |-> IF key \in DictKeys(a)
                   THEN [i \in 1..Len(a) |-> IF a[i][1] = key THEN <<key, profile>> ELSE a[i]]
                   ELSE Append(a, <<key, profile>>)]

\* Add with the assertion on _alleleCalls only.
Add_IndexUnchecked(a, idx, key, profile) ==
  IF key \in DictKeys(a) THEN [status |-> "AssertionError", alleleCalls |-> a]
  ELSE [status |-> "added", alleleCalls |-> Append(a, <<key, profile>>)]

\* AlleleCalls.Add: both assertions, then the profile enters _alleleCalls.
Add(a, idx, key, profile) ==
  IF key \in DictKeys(a) \/ key \in DOMAIN idx
  THEN [status |-> "AssertionError", alleleCalls |-> a]
  ELSE [status |-> "added", alleleCalls |-> Append(a, <<key, profile>>)]

\* HasKey and the keys of both tiers.
StoreKeys(a, idx) == DictKeys(a) \cup DOMAIN idx

NoFile == [exists |-> FALSE, content |-> <<>>]

File(c) == [exists |-> TRUE, content |-> c]

NoOp == [op |-> "none", key |-> None, status |-> "none", val |-> <<>>]

\* No process has the store, and the data directory is new.
StoreIdle ==
  /\ alleleCalls = <<>>
  /\ index = <<>>
  /\ matrices = <<>>
  /\ callsGzip = NoFile
  /\ indexGzip = NoFile
  /\ matrixGzip = <<>>
  /\ treeKeys = {}
  /\ tnames = {}
  /\ added = <<>>
  /\ saved = <<>>
  /\ lastOp = NoOp
  /\ spc = "ended"

\* A data directory in the format the files are read in, with one full shard
\* and one profile in calls.gzip: index.gzip maps each key of the shard to
\* the JSON array [0, slot].
ShardedDirectory ==
  /\ alleleCalls = <<>>
  /\ index = <<>>
  /\ matrices = <<>>
  /\ \E p \in StoreProfiles :
       /\ callsGzip = File(<<<<KeyName(BLOCKSIZE + 1), p>>>>)
       /\ matrixGzip = (0 :> [i \in 1..BLOCKSIZE |-> <<KeyName(i), p>>])
  /\ indexGzip = File([k \in {KeyName(i) : i \in 1..BLOCKSIZE} |->
                         [form |-> "list", shard |-> 0,
                          slot |-> (CHOOSE i \in 1..BLOCKSIZE : KeyName(i) = k) - 1]])
  /\ treeKeys = {KeyName(i) : i \in 1..(BLOCKSIZE + 1)}
  /\ tnames = {}
  /\ added = <<>>
  /\ saved = <<>>
  /\ lastOp = NoOp
  /\ spc = "ended"

\* DoCalc in a fresh process, up to the integrity test: Tree.Load,
\* AlleleCalls.Load (json.load of calls.gzip and of index.gzip), then the
\* test of the keys of names against the keys of _alleleCalls.
LoadRun ==
  /\ spc \in {"ended", "run", "saving", "aborted", "error"}
  /\ tnames' = treeKeys
  /\ alleleCalls' = IF callsGzip.exists THEN callsGzip.content ELSE <<>>
  /\ matrices' = <<>>
  /\ added' = saved
  /\ IF indexGzip.exists /\ ~IsJson(indexGzip.content)
     THEN /\ index' = <<>>
          /\ lastOp' = [NoOp EXCEPT !.op = "load", !.status = "JSONDecodeError"]
          /\ spc' = "error"
     ELSE /\ index' = IF indexGzip.exists THEN IndexLoaded(indexGzip.content) ELSE <<>>
          /\ lastOp' = [NoOp EXCEPT !.op = "load", !.status = "loaded"]
          /\ spc' = IF /\ \A alleleKey \in DictKeys(alleleCalls') : alleleKey \in tnames'
                       /\ \A treeKey \in tnames' : treeKey \in DictKeys(alleleCalls')
                    THEN "run" ELSE "aborted"
  /\ UNCHANGED <<callsGzip, indexGzip, matrixGzip, treeKeys, saved>>
  /\ UNCHANGED <<engineVars, lockVars, auxVars>>

\* A row of the batch that has no name yet: AlleleCalls.Add, whose
\* assertions want the key in neither tier, and the key is named.
StoreAdd ==
  /\ spc = "run"
  /\ \E k \in AllKeys \ tnames : \E p \in StoreProfiles :
       LET r == Add(alleleCalls, index, k, p)
       IN  /\ alleleCalls' = r.alleleCalls
           /\ lastOp' = [NoOp EXCEPT !.op = "add", !.key = k, !.status = r.status]
           /\ IF r.status = "AssertionError"
              THEN spc' = "error" /\ UNCHANGED <<tnames, added>>
              ELSE /\ tnames' = tnames \cup {k}
                   /\ added' = (k :> p) @@ added
                   /\ UNCHANGED spc
  /\ UNCHANGED <<index, matrices, callsGzip, indexGzip, matrixGzip, treeKeys, saved>>
  /\ UNCHANGED <<engineVars, lockVars, auxVars>>

\* GetCalls for any key.
StoreGet ==
  /\ spc = "run"
  /\ \E k \in AllKeys :
       LET r == GetCalls(alleleCalls, matrices, index, matrixGzip, k)
       IN  /\ matrices' = r.matrices
           /\ lastOp' = [op |-> "get", key |-> k, status |-> r.status, val |-> r.val]
  /\ UNCHANGED <<alleleCalls, index, callsGzip, indexGzip, matrixGzip, treeKeys,
                 tnames, added, saved, spc>>
  /\ UNCHANGED <<engineVars, lockVars, auxVars>>

\* AlleleCalls.Save: _Convert, then calls.gzip and index.gzip are written.
StoreSave ==
  /\ spc = "run"
  /\ LET a == Convert([alleleCalls |-> alleleCalls, index |-> index,
                       matrices |-> matrices, matrixGzip |-> matrixGzip])
     IN  /\ alleleCalls' = a.alleleCalls
         /\ index' = a.index
         /\ matrices' = a.matrices
         /\ matrixGzip' = a.matrixGzip
         /\ callsGzip' = File(a.alleleCalls)
         /\ indexGzip' = File(a.index)
  /\ saved' = added
  /\ lastOp' = [NoOp EXCEPT !.op = "save", !.status = "saved"]
  /\ spc' = "saving"
  /\ UNCHANGED <<treeKeys, tnames, added>>
  /\ UNCHANGED <<engineVars, lockVars, auxVars>>

\* SaveTree, which follows every AlleleCalls.Save.
StoreSaveTree ==
  /\ spc = "saving"
  /\ treeKeys' = tnames
  /\ spc' = "run"
  /\ UNCHANGED <<alleleCalls, index, matrices, callsGzip, indexGzip, matrixGzip,
                 tnames, added, saved, lastOp>>
  /\ UNCHANGED <<engineVars, lockVars, auxVars>>

StoreNext == LoadRun \/ StoreAdd \/ StoreGet \/ StoreSave \/ StoreSaveTree


\* ------------------------------------------- the AlleleCalls class alone
\* The class under any caller: Load on a new object, Add of the next new key
\* or of a key added before, GetCalls, Save.  The caller keeps the keys it
\* has added in tnames and catches an AssertionError.

\* AlleleCalls() and Load(path).
CallsLoad ==
  /\ spc \in {"ended", "run", "error"}
  /\ tnames' = treeKeys
  /\ alleleCalls' = IF callsGzip.exists THEN callsGzip.content ELSE <<>>
  /\ matrices' = <<>>
  /\ added' = saved
  /\ IF indexGzip.exists /\ ~IsJson(indexGzip.content)
     THEN /\ index' = <<>>
          /\ lastOp' = [NoOp EXCEPT !.op = "Load", !.status = "JSONDecodeError"]
          /\ spc' = "error"
     ELSE /\ index' = IF indexGzip.exists THEN IndexLoaded(indexGzip.content) ELSE <<>>
          /\ lastOp' = [NoOp EXCEPT !.op = "Load", !.status = "loaded"]
          /\ spc' = "run"
  /\ UNCHANGED <<callsGzip, indexGzip, matrixGzip, treeKeys, saved>>
  /\ UNCHANGED <<engineVars, lockVars, auxVars>>

\* Add(key, calls), for the first key the object does not hold or for any
\* key it holds.
CallsAdd ==
  /\ spc = "run"
  /\ \E k \in {KeyName(i) : i \in 1..(2 * BLOCKSIZE + 1)} : \E p \in StoreProfiles :
       /\ \/ k \in StoreKeys(alleleCalls, index)
          \/ k = KeyName(Cardinality(StoreKeys(alleleCalls, index)) + 1)
       /\ LET r == Add(alleleCalls, index, k, p)
          IN  /\ alleleCalls' = r.alleleCalls
              /\ lastOp' = [NoOp EXCEPT !.op = "Add", !.key = k, !.status = r.status]
              /\ IF r.status = "AssertionError"
                 THEN UNCHANGED <<tnames, added>>
                 ELSE /\ tnames' = tnames \cup {k}
                      /\ added' = (k :> p) @@ added
  /\ UNCHANGED <<index, matrices, callsGzip, indexGzip, matrixGzip, treeKeys, saved, spc>>
  /\ UNCHANGED <<engineVars, lockVars, auxVars>>

\* ------------------------------------------- two runs on the same batch
\* Two processes run DoCalc on empty data directories with the same batch
\* file, thresholds and minpres.  The only unordered collection CalcName
\* iterates is the set closestClusters, whose elements are tuples of ints:
\* their hashes do not depend on the process, so the order in which a set
\* filled in a given order is iterated is the same in both runs.  setOrder
\* holds that order for every filling order met so far.

\* Rows of the batch file the two runs read.
MaxBatch == 3

\* A run that has loaded the tree SaveTree makes in an empty directory.
NewRun == [ns |-> TreeLoad(TreeSave(EmptyTree, <<>>)).ns, names |-> <<>>,
           calls |-> <<>>, belowQC |-> {}, row |-> 1, tie |-> FALSE]

\* The levels of placement o that merged nodes.
MergeSteps(o) ==
  {o.steps[i] : i \in {j \in 1..Len(o.steps) : o.steps[j].kind = "merge"}}

\* Any iteration order, whatever was met before.
Consistent_AnyOrder(o, memo) == TRUE

\* The set iteration orders of outcome o are the ones already met.
Consistent(o, memo) ==
  \A st \in MergeSteps(o) : st.inserted \in DOMAIN memo => memo[st.inserted] = st.order

Remember(o, memo) ==
  [f \in DOMAIN memo \cup {st.inserted : st \in MergeSteps(o)} |->
     IF f \in DOMAIN memo THEN memo[f]
     ELSE (CHOOSE st \in MergeSteps(o) : st.inserted = f).order]

\* One pass of DoCalc's loop in run r for the row (key, p): the runs it can
\* leave, each with the set orders it used.
LoopPass(r, key, p, memo) ==
  IF ~CheckCore(p)
  THEN {[run  |-> [r EXCEPT !.belowQC = FailCore(@, key), !.row = @ + 1],
         memo |-> memo]}
  ELSE LET calls1 == (key :> p) @@ r.calls
       IN  {[run  |-> [r EXCEPT !.ns = o.ns, !.names = o.names, !.calls = calls1,
                                !.row = @ + 1,
                                !.tie = @ \/ \E st \in MergeSteps(o) : st.tie],
             memo |-> Remember(o, memo)] :
              o \in {x \in CalcName(r.ns, r.names, calls1, key) :
                       ~x.failed /\ Consistent(x, memo)}}

\* A row of the batch file.
TwinRead ==
  /\ Len(batch) < MaxBatch
  /\ \E p \in Profiles : batch' = Append(batch, p)
  /\ UNCHANGED <<runA, runB, setOrder>>
  /\ UNCHANGED <<engineVars, lockVars, storeVars, rerun, qc, treeDir, clock, saver, dist, renamed, probe, progress, corePercent>>

\* A batch file whose rows repeat profiles: one profile on one or two rows,
\* then one on two rows.
TwinReadPairs ==
  /\ batch = <<>>
  /\ \E p, q \in Profiles, n \in 1..2 :
       batch' = [i \in 1..n |-> p] \o <<q, q>>
  /\ UNCHANGED <<runA, runB, setOrder>>
  /\ UNCHANGED <<engineVars, lockVars, storeVars, rerun, qc, treeDir, clock, saver, dist, renamed, probe, progress, corePercent>>

TwinRowA ==
  /\ runA.row <= Len(batch)
  /\ \E x \in LoopPass(runA, KeyName(runA.row), batch[runA.row], setOrder) :
       runA' = x.run /\ setOrder' = x.memo
  /\ UNCHANGED <<batch, runB>>
  /\ UNCHANGED <<engineVars, lockVars, storeVars, rerun, qc, treeDir, clock, saver, dist, renamed, probe, progress, corePercent>>

TwinRowB ==
  /\ runB.row <= Len(batch)
  /\ \E x \in LoopPass(runB, KeyName(runB.row), batch[runB.row], setOrder) :
       runB' = x.run /\ setOrder' = x.memo
  /\ UNCHANGED <<batch, runA>>
  /\ UNCHANGED <<engineVars, lockVars, storeVars, rerun, qc, treeDir, clock, saver, dist, renamed, probe, progress, corePercent>>

\* ------------------------------------------- a second run on the batch
\* An Allele Code as a string, "<prefix><version> - <d1>.<d2>...": its
\* digits, and whether an "x" ends it.
Code(digits, x) == [digits |-> digits, x |-> x]

\* Tree.CDCName
CDCName(part) == Code(part, FALSE)

\* str.split('.') of a code.  The version 2.1 holds a dot, so the first piece
\* is "<prefix>2", the next one "1 - <d1>", then one piece per digit; the x
\* is part of the last piece.
SplitDots(code) ==
  LET n == Len(code.digits)
  IN  <<<<"head", 0, FALSE>>>> \o
      (IF n = 0 THEN <<<<"first", 0, code.x>>>>
       ELSE [i \in 1..n |-> <<IF i = 1 THEN "first" ELSE "digit",
                              code.digits[i], code.x /\ i = n>>])

\* CheckXcodeList: the first Xcode of the list that the digits begin with,
\* with an x; the name itself when there is none.
RECURSIVE CheckXcodeList(_, _)
CheckXcodeList(name, xCodeList) ==
  IF xCodeList = <<>> THEN name
  ELSE LET xCode == Head(xCodeList)
       IN  IF /\ Len(name.digits) >= Len(xCode)
              /\ SubSeq(name.digits, 1, Len(xCode)) = xCode
           THEN Code(xCode, TRUE)
           ELSE CheckXcodeList(name, Tail(xCodeList))

\* Tree.FinalizeCDCNames: for every key of every NamedNode, its code cut
\* after the lowest level whose node holds more than one child or key.
\* A FinalizeCDCNames that never cuts a path.
FinalizeCDCNames_FullPath(ns, nm) ==
  [key \in {k \in DOMAIN nm : \E h \in DOMAIN ns :
                                ns[h].isNamed /\ k \in Range(ns[h].named)} |->
     CDCName(GetName(nm, key))]

FinalizeCDCNames(ns, nm) ==
  LET part(h) == LET cdcname == NTraverse(ns, h)
                     pos == {i \in 1..Len(cdcname) : cdcname[i] > 0}
                 IN  IF pos = {} THEN 0
                     ELSE Len(cdcname) - (CHOOSE i \in pos : \A j \in pos : i <= j)
      node(key) == CHOOSE h \in DOMAIN ns :
                     ns[h].isNamed /\ key \in Range(ns[h].named)
  IN  [key \in {k \in DOMAIN nm : \E h \in DOMAIN ns :
                                    ns[h].isNamed /\ k \in Range(ns[h].named)} |->
         CDCName(GetPart(nm, key, part(node(key))))]

\* The third component FinalizeCDCNames yields with a key: part == Tree.DEPTH.
FinalizeComplete(ns, nm) ==
  LET part(h) == LET cdcname == NTraverse(ns, h)
                     pos == {i \in 1..Len(cdcname) : cdcname[i] > 0}
                 IN  IF pos = {} THEN 0
                     ELSE Len(cdcname) - (CHOOSE i \in pos : \A j \in pos : i <= j)
      node(key) == CHOOSE h \in DOMAIN ns :
                     ns[h].isNamed /\ key \in Range(ns[h].named)
  IN  [key \in {k \in DOMAIN nm : \E h \in DOMAIN ns :
                                    ns[h].isNamed /\ k \in Range(ns[h].named)} |->
         part(node(key)) = DEPTH]

\* DoCalc's test for a changed code: the old name, cut to as many pieces as
\* the new name has, differs from the new name.
NameChanged(currName, newName) ==
  LET c == SplitDots(currName)
      n == SplitDots(newName)
  IN  SubSeq(c, 1, IF Len(c) < Len(n) THEN Len(c) ELSE Len(n)) # n

\* Not a new assignment: the old name has something after "- ".
HadCode(currName) == currName.digits # <<>> \/ currName.x

\* The keys DoCalc enters in changedKeys after the loop.
ChangedKeys(oldNames, ns, nm, xCodeList) ==
  LET fin == FinalizeCDCNames(ns, nm)
      currName(key) == IF key \in DOMAIN oldNames THEN oldNames[key]
                       ELSE CDCName(<<>>)
  IN  {key \in DOMAIN fin :
         /\ NameChanged(currName(key), CheckXcodeList(fin[key], xCodeList))
         /\ HadCode(currName(key))}

\* A ChangeType that tells an excluded code from the rest and no more.
ChangeType_XOrOther(currName, newName) ==
  [type |-> IF currName.x \/ newName.x THEN "X" ELSE "Other", at |-> 0]

\* The ChangeType DoCalc writes with a changed key: X, Extended, Merged@at or
\* Other.  The pieces are those of str.split('.') on the whole code, so at
\* counts the prefix piece as 0 and the first digit's piece as 1.
ChangeType(currName, newName) ==
  LET cName == SplitDots(currName)
      nName == SplitDots(newName)
      both  == IF Len(cName) < Len(nName) THEN Len(cName) ELSE Len(nName)
      diffs == {i \in 0..(both - 1) : cName[i + 1] # nName[i + 1]}
      first == CHOOSE i \in diffs : \A j \in diffs : i <= j
  IN  IF currName.x \/ newName.x THEN [type |-> "X", at |-> 0]
      ELSE IF Len(cName) < Len(nName)
      THEN IF cName = SubSeq(nName, 1, Len(cName))
           THEN [type |-> "Extended", at |-> 0]
           ELSE [type |-> "Merged", at |-> first]
      ELSE IF diffs # {} THEN [type |-> "Merged", at |-> first]
      ELSE [type |-> "Other", at |-> 0]

\* A loop that skips the row of a named key after storing its profile.
RECURSIVE DoRows_StoresRow(_, _, _, _)
DoRows_StoresRow(r, rows, namedEntries, memo) ==
  IF r.row > Len(rows) THEN {r}
  ELSE IF KeyName(r.row) \in namedEntries
       THEN DoRows_StoresRow([r EXCEPT !.calls = (KeyName(r.row) :> rows[r.row]) @@ @,
                                       !.row = @ + 1],
                             rows, namedEntries, memo)
       ELSE UNION {DoRows_StoresRow(x.run, rows, namedEntries, x.memo) :
                     x \in LoopPass(r, KeyName(r.row), rows[r.row], memo)}

\* DoCalc's loop over the rows of the batch whose key had no name at load.
RECURSIVE DoRows(_, _, _, _)
DoRows(r, rows, namedEntries, memo) ==
  IF r.row > Len(rows) THEN {r}
  ELSE IF KeyName(r.row) \in namedEntries
       THEN DoRows([r EXCEPT !.row = @ + 1], rows, namedEntries, memo)
       ELSE UNION {DoRows(x.run, rows, namedEntries, x.memo) :
                     x \in LoopPass(r, KeyName(r.row), rows[r.row], memo)}

\* The excluded-code lists of Xcodes.tsv.
XcodeLists == {<<>>, <<<<1>>>>, <<<<1, 1>>>>, <<<<2>>, <<1, 1>>>>}

\* Calculator.WriteResults: the rows of the output file after its header.
\* The second argument of the test for a code row is self._changedKeys.
WriteResults(ns, nm, newKeys, changedKeys, failed) ==
  LET fin == FinalizeCDCNames(ns, nm)
  IN  {[key |-> key, failedQC |-> FALSE, code |-> fin[key]] :
         key \in DOMAIN fin \cap (newKeys \cup changedKeys)}
      \cup {[key |-> key, failedQC |-> TRUE, code |-> CDCName(<<>>)] :
              key \in DOMAIN fin \cap failed}

\* After the first run has saved: a second invocation with the same batch,
\* with the same batch and one more row, or with the same batch but for
\* another profile on its first row.  It loads what the first run
\* saved, drops the named keys from the batch, runs the loop, compares the
\* codes with the ones at load, saves, and writes the output file.  Nothing
\* fills self._changedKeys (DoCalc's changedKeys is a local dict), so
\* WriteResults is given the empty set of __init__.
Rerun ==
  /\ Len(batch) >= 1
  /\ runA.row = Len(batch) + 1
  /\ ~rerun.done
  /\ \E xCodeList \in XcodeLists, extra \in {<<>>} \cup {<<p>> : p \in Profiles},
        other \in {<<>>} \cup {<<p>> : p \in Profiles \ {batch[1]}} :
       LET database == TreeLoad(TreeSave(runA.ns, runA.names))
           loaded   == [ns |-> database.ns, names |-> database.names,
                        calls |-> runA.calls, belowQC |-> {}, row |-> 1,
                        tie |-> FALSE]
           oldNames == FinalizeCDCNames(loaded.ns, loaded.names)
           rows     == (IF other = <<>> THEN batch ELSE other \o Tail(batch))
                         \o extra
           newKeys  == {KeyName(i) : i \in 1..Len(rows)} \ DOMAIN loaded.names
       IN  /\ extra = <<>> \/ other = <<>>
           /\ IntegrityOk(loaded.names, loaded.calls)
           /\ \E r \in DoRows(loaded, rows, DOMAIN loaded.names, setOrder) :
                LET fin == FinalizeCDCNames(r.ns, r.names)
                IN  rerun' = [done |-> TRUE, xCodeList |-> xCodeList,
                              extra |-> extra, other |-> other,
                              loaded |-> loaded, run |-> r,
                              oldNames |-> oldNames, newKeys |-> newKeys,
                              emitted |-> [key \in DOMAIN fin |->
                                             CheckXcodeList(fin[key], xCodeList)],
                              changedKeys |-> ChangedKeys(oldNames, r.ns, r.names,
                                                          xCodeList),
                              changeTypes |->
                                [key \in ChangedKeys(oldNames, r.ns, r.names,
                                                     xCodeList) |->
                                   ChangeType(oldNames[key],
                                              CheckXcodeList(fin[key], xCodeList))],
                              output |-> WriteResults(r.ns, r.names, newKeys, {},
                                                      r.belowQC)]
  /\ UNCHANGED <<batch, runA, runB, setOrder, qc, treeDir, clock, saver>>
  /\ UNCHANGED <<engineVars, lockVars, storeVars, dist, renamed, probe, progress, corePercent>>

\* ------------------------------------------------------------ UpdateNamed
\* Tree.UpdateNamed on a tree that was loaded (_treeHasBeenBuilt, as in every
\* DoCalc).  NamedNode.UpdateNamed sets _namedChildren[newKey] (at the end
\* of the dict when newKey is new to it, in place otherwise) and then
\* deletes key; the nodes along the path get newKey as Preferred where key
\* was; _names[newKey] is set, then key is deleted.  Nothing happens for a
\* key without a name.
UpdateNamed(ns, nm, key, newKey) ==
  IF key \notin DOMAIN nm THEN [ns |-> ns, names |-> nm]
  ELSE LET location   == nm[key]
           named_node == Traverse(ns, 0, location)
           onPath     == {Traverse(ns, 0, SubSeq(location, 1, i)) :
                            i \in 1..Len(location)}
           set        == IF newKey \in Range(ns[named_node].named)
                         THEN ns[named_node].named
                         ELSE Append(ns[named_node].named, newKey)
           ns1        == [ns EXCEPT ![named_node].named =
                                      SelectSeq(set, LAMBDA k : k # key)]
           nm1        == SetName(nm, newKey, nm[key])
       IN  [ns    |-> [h \in DOMAIN ns1 |->
                         IF h \in onPath /\ ns1[h].preferred = key
                         THEN [ns1[h] EXCEPT !.preferred = newKey]
                         ELSE ns1[h]],
            names |-> [k \in DOMAIN nm1 \ {key} |-> nm1[k]]]

\* After the first run: UpdateNamed(key, newKey) on its tree, for a key of
\* the batch (named, or rejected and without a name) and any newKey.
Rename ==
  /\ Len(batch) >= 1
  /\ runA.row = Len(batch) + 1
  /\ ~renamed.done
  /\ \E key \in {KeyName(i) : i \in 1..Len(batch)}, newKey \in AllKeys :
       LET u == UpdateNamed(runA.ns, runA.names, key, newKey)
       IN  renamed' = [done |-> TRUE, key |-> key, newKey |-> newKey,
                       was |-> [ns |-> runA.ns, names |-> runA.names],
                       ns |-> u.ns, names |-> u.names]
  /\ UNCHANGED <<engineVars, lockVars, storeVars, probe, progress, corePercent>>
  /\ UNCHANGED <<batch, runA, runB, setOrder, rerun, qc, treeDir, clock, saver, dist>>

\* ------------------------------------------- CalcName with a low corePercent
\* Profiles that miss up to two loci of five, and one that misses three.
LooseProfiles ==
  { <<0, 0, 2, 2, 2>>,
    <<1, 1, 0, 2, 2>>,
    <<1, 1, 1, 0, 0>>,
    <<1, 1, 1, 1, 1>>,
    <<2, 2, 2, 2, 2>>,
    <<0, 0, 0, 1, 1>> }

\* One pass of DoCalc's loop for a row that passes CheckCore at the run's
\* corePercent: AlleleCalls.Add, CalcName.
PlaceLoose ==
  /\ pc = "rows"
  /\ row <= MaxKeys
  /\ KeyName(row) \notin DOMAIN names
  /\ \E p \in LooseProfiles :
       /\ CheckCore(p)
       /\ KeyName(row) \notin DOMAIN calls
       /\ calls' = (KeyName(row) :> p) @@ calls
       /\ \E o \in CalcName(nodes, names, calls', KeyName(row)) :
            /\ nodes' = o.ns
            /\ names' = o.names
            /\ last' = [kind |-> "placed", key |-> KeyName(row), steps |-> o.steps]
            /\ pc' = IF o.failed THEN "aborted" ELSE "rows"
  /\ row' = row + 1
  /\ UNCHANGED <<belowQC, treeFile, callsFile>>
  /\ UNCHANGED <<lockVars, storeVars, auxVars>>

\* ------------------------------------------------------ IsInCluster alone
\* After the first run: IsInCluster for the profile of a new key, which
\* passed CheckCore, and any node of the tree, at the threshold of the
\* node's level.
ClusterCheck ==
  /\ Len(batch) >= 1
  /\ runA.row = Len(batch) + 1
  /\ ~probe.done
  /\ \E p \in {q \in Profiles : CheckCore(q)}, h \in DOMAIN runA.ns \ {0} :
       LET unNamedEntryKey == KeyName(Len(batch) + 1)
           alleles == (unNamedEntryKey :> p) @@ runA.calls
       IN  probe' = [done |-> TRUE, key |-> unNamedEntryKey, node |-> h,
                     ns |-> runA.ns, calls |-> alleles,
                     isIn |-> IsInCluster(runA.ns, alleles, unNamedEntryKey, h,
                                          runA.ns[h].level)]
  /\ UNCHANGED <<engineVars, lockVars, storeVars, progress, corePercent>>
  /\ UNCHANGED <<batch, runA, runB, setOrder, rerun, qc, treeDir, clock, saver, dist, renamed>>

\* ------------------------------------------- DoCalc's loops and its saves
\* The number of keys between two intermittent saves (1000 in the source).
SaveEvery == 2

\* DoCalc without --nosave, by the number of keys: named are the keys with a
\* name in memory, disk those in the tree file and the calls files.  The
\* loop over newProfiles names one key per pass and saves nothing.  Then the
\* loop over FinalizeCDCNames() shows one key per pass and adds to numToSave
\* 1 for a code that differs from the old one and 1 for a key of this run
\* (both for a new key with a code of one digit or more), and saves when
\* numToSave has grown and is a multiple of the interval.  Then the final
\* save, and the next run.
DoCalcStep ==
  /\ \/ /\ progress.pc = "rows"
        /\ progress.named < MaxKeys
        /\ progress' = [progress EXCEPT !.named = @ + 1]
     \/ /\ progress.pc = "rows"
        /\ progress' = [progress EXCEPT !.pc = "report", !.shown = 0,
                                        !.numToSave = 0, !.oldNumToSave = 0]
     \/ /\ progress.pc = "report"
        /\ progress.shown < progress.named
        /\ \E inc \in 0..2 :
             LET numToSave == progress.numToSave + inc
                 save == /\ numToSave > progress.oldNumToSave
                         /\ numToSave % SaveEvery = 0
             IN  progress' = [progress EXCEPT
                    !.shown = @ + 1,
                    !.numToSave = numToSave,
                    !.oldNumToSave = IF save THEN numToSave ELSE @,
                    !.disk = IF save THEN progress.named ELSE @]
     \/ /\ progress.pc = "report"
        /\ progress.shown = progress.named
        /\ progress' = [progress EXCEPT !.pc = "rows", !.disk = progress.named]
  /\ UNCHANGED <<engineVars, lockVars, storeVars, corePercent>>
  /\ UNCHANGED <<batch, runA, runB, setOrder, rerun, qc, treeDir, clock, saver, dist, renamed, probe>>

\* ------------------------------------------------- the quality filter
\* Numbers of core loci, and cutoffs in percent (0.95 is the source's).
QCLens == {5, 20, 37}

QCCutoffs == {60, 80, 95}

\* CheckCore on a profile of len loci of which called are not 0.
QCCheck ==
  /\ \E len \in QCLens, minPres \in QCCutoffs :
       \E called \in 0..len :
         qc' = [done |-> TRUE, len |-> len, called |-> called,
                minPres |-> minPres,
                accepted |-> CheckCoreAt(called, len, minPres)]
  /\ UNCHANGED <<engineVars, lockVars, storeVars, dist, renamed, probe, progress, corePercent>>
  /\ UNCHANGED <<batch, runA, runB, setOrder, rerun, treeDir, clock, saver>>

\* --------------------------------------------------- SaveTree, by steps
\* The seconds the clock runs through.
MaxClock == 4

\* FILE_NAME from datetime.now() and open(FILE_PATH, 'w'): the file is
\* created, or cut to nothing when a file of that name is there.  DoCalc
\* calls SaveTree when it loads and finds no tree file, with --nosave or
\* without, and after the loop when --nosave was not given.
SaveOpen ==
  /\ saver.pc = "idle"
  /\ \E nosave \in BOOLEAN :
       /\ saver.isdir \/ ~nosave
       /\ saver' = [saver EXCEPT !.pc = "open", !.FILE_PATH = clock,
                                 !.nosave = nosave]
  /\ treeDir' = [f \in DOMAIN treeDir \cup {clock} |->
                   IF f = clock THEN "partial" ELSE treeDir[f]]
  /\ UNCHANGED clock
  /\ UNCHANGED <<engineVars, lockVars, storeVars, batch, runA, runB, setOrder, rerun, qc, dist, renamed, probe, progress, corePercent>>

\* self._tree.Save(f), and the file is closed.
SaveWrite ==
  /\ saver.pc = "open"
  /\ saver' = [saver EXCEPT !.pc = "written"]
  /\ treeDir' = [treeDir EXCEPT ![saver.FILE_PATH] = "complete"]
  /\ UNCHANGED clock
  /\ UNCHANGED <<engineVars, lockVars, storeVars, batch, runA, runB, setOrder, rerun, qc, dist, renamed, probe, progress, corePercent>>

\* os.remove(self._treepath) when it is a file other than FILE_PATH, and
\* self._treepath = SaveTree().
SaveRemove ==
  /\ saver.pc = "written"
  /\ treeDir' = IF ~saver.isdir /\ saver.FILE_PATH # saver.treepath
                THEN [f \in DOMAIN treeDir \ {saver.treepath} |-> treeDir[f]]
                ELSE treeDir
  /\ saver' = [saver EXCEPT !.pc = "idle", !.isdir = FALSE,
                            !.treepath = saver.FILE_PATH]
  /\ UNCHANGED clock
  /\ UNCHANGED <<engineVars, lockVars, storeVars, batch, runA, runB, setOrder, rerun, qc, dist, renamed, probe, progress, corePercent>>

\* A second passes.
Tick ==
  /\ clock < MaxClock
  /\ saver.pc # "stopped"
  /\ clock' = clock + 1
  /\ UNCHANGED <<treeDir, saver>>
  /\ UNCHANGED <<engineVars, lockVars, storeVars, batch, runA, runB, setOrder, rerun, qc, dist, renamed, probe, progress, corePercent>>

\* The process stops, at any point.
Stop ==
  /\ saver.pc # "stopped"
  /\ saver' = [saver EXCEPT !.pc = "stopped"]
  /\ UNCHANGED <<treeDir, clock>>
  /\ UNCHANGED <<engineVars, lockVars, storeVars, batch, runA, runB, setOrder, rerun, qc, dist, renamed, probe, progress, corePercent>>

\* ----------------------------------------------------- GetDistance alone
\* The length of the profiles GetDistance is given.
DistLen == 3

\* GetDistance(p1, p2) and GetDistance(p2, p1) for two profiles of DistLen
\* loci with the alleles 0 (missing), 1 and 2.
DistCheck ==
  /\ ~dist.done
  /\ \E p1, p2 \in [1..DistLen -> 0..2] :
       dist' = [done |-> TRUE, p1 |-> p1, p2 |-> p2,
                d |-> GetDistance(p1, p2), back |-> GetDistance(p2, p1)]
  /\ UNCHANGED <<engineVars, lockVars, storeVars, renamed, probe, progress, corePercent>>
  /\ UNCHANGED <<batch, runA, runB, setOrder, rerun, qc, treeDir, clock, saver>>

\* ------------------------------------------------------- specifications

\* Nothing is under way outside the engine, the lock and the store: no batch
\* has been read by the two runs, there has been no second run and no
\* CheckCore, tree/current is empty and _treepath is the directory.
AuxWith(minPres) ==
  /\ corePercent = minPres
  /\ batch = <<>>
  /\ runA = NewRun
  /\ runB = NewRun
  /\ setOrder = <<>>
  /\ rerun = [done |-> FALSE, xCodeList |-> <<>>, extra |-> <<>>, other |-> <<>>,
              loaded |-> NewRun, run |-> NewRun, oldNames |-> <<>>,
              newKeys |-> {}, emitted |-> <<>>, changedKeys |-> {},
              changeTypes |-> <<>>, output |-> {}]
  /\ qc = [done |-> FALSE, len |-> 0, called |-> 0, minPres |-> 0,
           accepted |-> FALSE]
  /\ treeDir = <<>>
  /\ clock = 0
  /\ saver = [pc |-> "idle", isdir |-> TRUE, treepath |-> 0, FILE_PATH |-> 0,
              nosave |-> FALSE]
  /\ dist = [done |-> FALSE, p1 |-> <<>>, p2 |-> <<>>, d |-> 0, back |-> 0]
  /\ progress = [pc |-> "rows", named |-> 0, disk |-> 0, shown |-> 0,
                 numToSave |-> 0, oldNumToSave |-> 0]
  /\ probe = [done |-> FALSE, key |-> None, node |-> 0, ns |-> NewRun.ns,
              calls |-> <<>>, isIn |-> FALSE]
  /\ renamed = [done |-> FALSE, key |-> None, newKey |-> None,
                was |-> [ns |-> NewRun.ns, names |-> <<>>],
                ns |-> NewRun.ns, names |-> <<>>]

\* The module's minpres is what Calculator.__init__ hands to every CalcName.
AuxIdle == AuxWith(minpres)

Init == EngineInit /\ LockIdle /\ StoreIdle /\ AuxIdle

Next == DropRow \/ RejectRow \/ PlaceRow \/ FinalSave \/ StartRun

\* The placing runs: batches of rows, the final save, the next run's load.
\* The runs keep fewer than BLOCKSIZE (1000) profiles, so that every profile
\* is in _alleleCalls and GetCalls is the dict lookup calls[key].
Spec == Init /\ [][Next]_vars

\* Invocations of Main on one data directory, interleaved.
SpecLock == Init /\ [][LockNext]_vars

StoreInit == EngineInit /\ LockIdle /\ (StoreIdle \/ ShardedDirectory) /\ AuxIdle

\* The allele-call store and the runs that load it.
SpecStore == StoreInit /\ [][StoreNext]_vars

\* Two runs of the engine on one batch, from empty data directories.
SpecTwin == Init /\ [][TwinRead \/ TwinRowA \/ TwinRowB]_vars

\* The AlleleCalls class under any caller.
SpecCalls == StoreInit /\ [][CallsLoad \/ CallsAdd \/ StoreGet \/ StoreSave \/ StoreSaveTree]_vars

\* The saves of the tree by one process, which may stop at any point.
SpecSaveTree == Init /\ [][SaveOpen \/ SaveWrite \/ SaveRemove \/ Tick \/ Stop]_vars

\* GetDistance on every pair of short profiles.
SpecDist == Init /\ [][DistCheck]_vars

\* Runs of DoCalc that save, by the number of keys.
SpecSaves == Init /\ [][DoCalcStep]_vars

\* Runs of CalcName with a corePercent of LowPres.
LooseInit == EngineInit /\ LockIdle /\ StoreIdle /\ AuxWith(LowPres)

SpecLoose == LooseInit /\ [][PlaceLoose]_vars

\* A run on rows that repeat profiles, then a second run with one more row.
SpecChange == Init /\ [][TwinReadPairs \/ TwinRowA \/ Rerun]_vars

\* A run, then one IsInCluster on its tree.
SpecCluster == Init /\ [][TwinRead \/ TwinRowA \/ ClusterCheck]_vars

\* A run, then one UpdateNamed on its tree.
SpecRename == Init /\ [][TwinRead \/ TwinRowA \/ Rename]_vars

\* CheckCore on profiles of several lengths, under several cutoffs.
SpecQC == Init /\ [][QCCheck]_vars

\* A run on a batch, then a second run on the same batch.
SpecRerun == Init /\ [][TwinRead \/ TwinRowA \/ Rerun]_vars

NeverAborted == pc # "aborted"

\* ------------------------------------------------------------ properties

Levels(ns) == DOMAIN ns \ {0}

NamedNodes(ns) == {h \in DOMAIN ns : ns[h].isNamed}

\* The keys below node h: the named children of its terminal descendants.
Members(ns, h) == Range(IterEntryKeys(ns, h))

\* The ids from the head node down to node h.
PathTo(ns, h) == Reverse(RTraverse(ns, h))

NoDuplicates(s) == \A i, j \in 1..Len(s) : s[i] = s[j] => i = j

MergedAt(level) ==
  /\ last.kind = "placed"
  /\ \E i \in 1..Len(last.steps) :
       last.steps[i].kind = "merge" /\ last.steps[i].level = level

\* Every node of the arena hangs in the tree under its parent.
ArenaIsTree ==
  \A h \in Levels(nodes) :
    /\ nodes[h].parent \in DOMAIN nodes
    /\ \E i \in 1..Len(nodes[nodes[h].parent].children) :
         nodes[nodes[h].parent].children[i][2] = h

\* C1: after every completed placement each key of names has a path of
\* DEPTH ids that leads from the head node to a NamedNode listing the key,
\* no other NamedNode lists it, and every key a NamedNode lists is in names.
C1_NamesLeadToTheirNode ==
  pc # "aborted" =>
    /\ \A k \in DOMAIN names :
         /\ Len(names[k]) = DEPTH
         /\ LET t == Traverse(nodes, 0, names[k])
            IN  /\ t # NoParent
                /\ nodes[t].isNamed
                /\ k \in Range(nodes[t].named)
                /\ \A u \in NamedNodes(nodes) : k \in Range(nodes[u].named) => u = t
    /\ \A u \in NamedNodes(nodes) : Range(nodes[u].named) \subseteq DOMAIN names

\* A placement with a merge at level 1 (children re-parented and renamed)
\* has completed and three keys or more are named.
C1_Witness ==
  /\ pc = "rows"
  /\ MergedAt(1)
  /\ Cardinality(DOMAIN names) >= 3
  /\ \E k \in DOMAIN names \ {last.key} : names[k][2] >= 2

\* C2: a key put into a node that existed before (the one match, or the
\* survivor of a merge) at level l is within Tau(l) of the node's founder or
\* of one of the node's members, founder and members taken as they were
\* before the placement.
C2_PlacedWithinThreshold ==
  last.kind = "placed" =>
    \A i \in 1..Len(last.steps) :
      LET st == last.steps[i]
      IN  st.kind \in {"single", "merge"} =>
            \/ KeyDistance(calls, last.key, st.founder) <= Tau(st.level)
            \/ \E m \in st.members : KeyDistance(calls, last.key, m) <= Tau(st.level)

\* A key has entered an existing node whose founder is beyond the threshold:
\* one of the node's members let it in.
C2_Witness ==
  /\ last.kind = "placed"
  /\ \E i \in 1..Len(last.steps) :
       /\ last.steps[i].kind \in {"single", "merge"}
       /\ KeyDistance(calls, last.key, last.steps[i].founder) > Tau(last.steps[i].level)
       /\ \E m \in last.steps[i].members :
            KeyDistance(calls, last.key, m) <= Tau(last.steps[i].level)

\* C3: after every completed placement, a node's cached member list, once
\* populated, holds exactly the keys of the node's terminal descendants, each
\* once.
C3_EntryKeysAreMembers ==
  pc # "aborted" =>
    \A h \in Levels(nodes) :
      nodes[h].cached =>
        /\ Range(nodes[h].entryKeys) = Members(nodes, h)
        /\ NoDuplicates(nodes[h].entryKeys)

\* After a merge at level 1 the survivor's list holds three keys or more,
\* while another node's list is still unpopulated.
C3_Witness ==
  /\ MergedAt(1)
  /\ \E h \in Levels(nodes) :
       /\ nodes[h].cached /\ nodes[h].level = 1 /\ Len(nodes[h].entryKeys) >= 3
  /\ \E h \in Levels(nodes) : ~nodes[h].cached

\* C4: the children of any node have pairwise distinct positive ids, and
\* each child's own ID is the key its parent holds it under.
C4_SiblingIdsUnique ==
  \A h \in DOMAIN nodes :
    LET c == nodes[h].children
    IN  /\ \A i, j \in 1..Len(c) : c[i][1] = c[j][1] => i = j
        /\ \A i \in 1..Len(c) : c[i][1] > 0 /\ nodes[c[i][2]].ID = c[i][1]

\* A merge at level 1 has moved a child under the survivor, which now has
\* two children or more.
C4_Witness ==
  /\ MergedAt(1)
  /\ \E i \in 1..Len(last.steps) :
       /\ last.steps[i].kind = "merge"
       /\ last.steps[i].level = 1
       /\ Len(nodes[last.steps[i].node].children) >= 3

\* C5: after every completed placement the founder of every node below the
\* head node is a named key whose stored path passes through the node.
C5_FounderIsMember ==
  pc # "aborted" =>
    \A h \in Levels(nodes) :
      /\ nodes[h].preferred \in DOMAIN names
      /\ Len(names[nodes[h].preferred]) >= nodes[h].level
      /\ SubSeq(names[nodes[h].preferred], 1, nodes[h].level) = PathTo(nodes, h)
      /\ Traverse(nodes, 0, PathTo(nodes, h)) = h

\* A merge at level 1 has moved a NamedNode under the survivor, and the moved
\* node keeps the founder it had.
C5_Witness ==
  /\ MergedAt(1)
  /\ \E h \in NamedNodes(nodes) :
       /\ nodes[h].ID >= 2
       /\ nodes[h].preferred # last.key
       /\ nodes[nodes[h].parent].preferred # nodes[h].preferred

\* The content of a tree, without the handles of the arena: what Tree.Save
\* is to keep.
RECURSIVE NodeContent(_, _)
NodeContent(ns, h) ==
  [ID |-> ns[h].ID, level |-> ns[h].level, diameter |-> ns[h].diameter,
   preferred |-> ns[h].preferred, isNamed |-> ns[h].isNamed, named |-> ns[h].named,
   children |-> [i \in 1..Len(ns[h].children) |->
                   <<ns[h].children[i][1], NodeContent(ns, ns[h].children[i][2])>>]]

TreeContent(ns, nm) == [names |-> nm, tree |-> NodeContent(ns, 0)]

\* C9: loading a saved tree into a fresh Tree gives the names map and the
\* node structure (ids, levels, founders, diameters, children maps, named
\* children) that were saved.
C9_TreeRoundTrip ==
  pc = "done" =>
    TreeContent(TreeLoad(treeFile).ns, TreeLoad(treeFile).names)
      = TreeContent(nodes, names)

\* A tree shaped by a merge at level 1, with a positive diameter and a
\* NamedNode of two keys, has been saved and loaded again.
C9_Witness ==
  /\ pc = "rows"
  /\ last.kind = "none"
  /\ TreeContent(nodes, names) = TreeContent(TreeLoad(treeFile).ns, TreeLoad(treeFile).names)
  /\ \E h \in Levels(nodes) : nodes[h].diameter > 0 /\ Len(nodes[h].children) >= 3
  /\ \E h \in NamedNodes(nodes) : Len(nodes[h].named) >= 2


\* The invocations that are past lock acquisition and load or place.
Holders == {p \in Procs : lpc[p] \in {"setup", "docalc"}}

\* C6: of the invocations of Main interleaved on one data directory, at most
\* one at a time is past lock acquisition and loading or placing.
C6_OneHolderAtATime == Cardinality(Holders) <= 1

\* An invocation that had acquired the lock ends with this step.
Ends(p) ==
  /\ lpc[p] \notin {"ended", "main"}
  /\ lpc'[p] = "ended"

\* C7: when an invocation that acquired the lock ends, the lock file has
\* been removed if and only if the run completed without error.
C7_LockRemovedIffClean ==
  [][\A p \in Procs : Ends(p) => (~lock' <=> result'[p] = "clean")]_vars

\* C8: GetCalls of a key that was added with profile p returns p, whatever
\* Add, Save and load came after, also for a key promoted to a shard; GetCalls
\* of a key in neither tier returns None; and a load of what Save wrote
\* succeeds.
C8_GetReturnsAdded ==
  /\ lastOp.op = "get" =>
       IF lastOp.key \in DOMAIN added
       THEN lastOp.status = "value" /\ lastOp.val = added[lastOp.key]
       ELSE lastOp.key \notin StoreKeys(alleleCalls, index) => lastOp.status = "absent"
  /\ lastOp.op = "load" /\ DOMAIN saved # {} => lastOp.status = "loaded"

C12_RerunChangesNothing ==
  rerun.done /\ rerun.extra = <<>> /\ rerun.other = <<>> =>
    /\ DOMAIN rerun.run.calls = DOMAIN rerun.loaded.calls
    /\ rerun.run.names = rerun.loaded.names
    /\ TreeContent(rerun.run.ns, rerun.run.names)
         = TreeContent(rerun.loaded.ns, rerun.loaded.names)
    /\ rerun.run.calls = rerun.loaded.calls
    /\ rerun.changedKeys = {}

\* C13: the quality filter rejects a profile exactly when
\* called / len < min_present, and accepts it otherwise.
C13_RejectsExactlyBelowCutoff ==
  qc.done => (~qc.accepted <=> 100 * qc.called < qc.minPres * qc.len)

\* C14: a row that fails the quality filter is recorded in belowQC and
\* skipped: its key gets no name and no calls, the tree, the names and the
\* calls stay as they were, and the loop goes on with the next row.
C14_RejectedIsRecordedAndSkipped ==
  [][(last'.kind = "rejected" /\ row' = row + 1) =>
       /\ last'.key \in belowQC'
       /\ last'.key \notin DOMAIN names'
       /\ last'.key \notin DOMAIN calls'
       /\ nodes' = nodes /\ names' = names /\ calls' = calls
       /\ pc' = "rows"]_vars

\* A row has been rejected after other rows were placed.
C14_Witness ==
  /\ last.kind = "rejected"
  /\ last.key \in belowQC
  /\ Cardinality(DOMAIN names) >= 2
  /\ pc = "rows"

\* C15: Add of a key that is in _alleleCalls or in _index fails, and leaves
\* _alleleCalls, _index and the loaded shards as they were.
C15_AddOfPresentKeyFails ==
  [][(/\ lastOp' # lastOp
      /\ lastOp'.op = "Add"
      /\ lastOp'.key \in StoreKeys(alleleCalls, index)) =>
       /\ lastOp'.status = "AssertionError"
       /\ alleleCalls' = alleleCalls
       /\ index' = index
       /\ matrices' = matrices
       /\ matrixGzip' = matrixGzip]_vars

\* Add has failed for a key of a cold shard, with keys in both tiers.
C15_Witness ==
  /\ lastOp.op = "Add"
  /\ lastOp.status = "AssertionError"
  /\ lastOp.key \in DOMAIN index
  /\ alleleCalls # <<>>

\* C16: every key added is in exactly one of _alleleCalls and _index, and
\* no key is in both.
C16_ExactlyOneTier ==
  spc \in {"run", "saving"} =>
    /\ \A k \in DOMAIN added :
         (k \in DictKeys(alleleCalls)) # (k \in DOMAIN index)
    /\ DictKeys(alleleCalls) \cap DOMAIN index = {}

\* After a Save that promoted a shard, added keys are in each tier.
C16_Witness ==
  /\ spc = "run"
  /\ lastOp.op = "save"
  /\ \E k \in DOMAIN added : k \in DictKeys(alleleCalls)
  /\ \E k \in DOMAIN added : k \in DOMAIN index

C18_CompleteTreeFileRemains ==
  (saver.pc = "stopped" /\ ~saver.isdir) =>
    \E f \in DOMAIN treeDir : treeDir[f] = "complete"

\* C19: an invocation that finds the lock file ends at once: it does not
\* go on to Setup and DoCalc, the tree, the names and the calls in memory
\* and on disk are as they were, and the lock file stays.
C19_RefusedDoesNothing ==
  [][\A p \in Procs :
       (lpc[p] = "main" /\ lock) =>
         /\ lpc'[p] \in {"main", "ended"}
         /\ lpc'[p] = "ended" =>
              /\ result'[p] = "refused"
              /\ lock'
              /\ engineVars' = engineVars
              /\ storeVars' = storeVars]_vars

\* An invocation was refused while another one holds the lock in DoCalc.
C19_Witness ==
  \E p, q \in Procs :
    /\ lpc[p] = "ended" /\ result[p] = "refused"
    /\ lpc[q] = "docalc"
    /\ lock

\* C20: an invocation ends with exit status 0 only when it succeeded; a lock
\* file held, a failed integrity test and an input that cannot be parsed
\* give another status.
C20_ExitZeroOnlyOnSuccess ==
  \A p \in Procs :
    (lpc[p] = "ended" /\ result[p] # "none") =>
      (exitStatus[p] = 0 <=> result[p] = "clean")

\* C21: GetDistance(p, q) is 100 * diff / common, common being the loci
\* called in both and diff those of them whose alleles differ, and 100 when
\* common is 0; it is the same both ways, and 0 when the profiles share a
\* called locus and agree on every locus called in both.
C21_DistanceIsDiffOverCommon ==
  dist.done =>
    LET both   == {i \in 1..Len(dist.p1) : dist.p1[i] > 0 /\ dist.p2[i] > 0}
        common == Cardinality(both)
        diff   == Cardinality({i \in both : dist.p1[i] # dist.p2[i]})
    IN  /\ common = 0 => dist.d = 100 * Scale
        /\ common > 0 => dist.d * common = 100 * diff * Scale
        /\ dist.d = dist.back
        /\ (common >= 1 /\ diff = 0) => dist.d = 0

\* GetDistance has been applied to two profiles that differ on one of two
\* jointly called loci, each with a locus the other lacks.
C21_Witness ==
  /\ dist.done
  /\ dist.p1 = <<1, 1, 0>> \o [i \in 1..(DistLen - 3) |-> 1]
  /\ dist.p2[1] = 1 /\ dist.p2[2] = 2 /\ dist.p2[3] = 2
  /\ dist.d > 0 /\ dist.d < 100 * Scale

\* C22: a key whose path begins with an entry of the excluded-code list is
\* emitted as that entry followed by x, with nothing after it; a key whose
\* path begins with no entry is emitted without x.
C22_ExcludedPrefixGetsX ==
  rerun.done =>
    \A key \in DOMAIN rerun.emitted :
      LET path    == rerun.run.names[key]
          entries == {rerun.xCodeList[i] : i \in 1..Len(rerun.xCodeList)}
          begun   == {x \in entries : /\ Len(x) <= Len(path)
                                      /\ SubSeq(path, 1, Len(x)) = x}
      IN  /\ begun # {} => rerun.emitted[key] \in {Code(x, TRUE) : x \in begun}
          /\ begun = {} => ~rerun.emitted[key].x

\* C24: the output file holds one code row for each key newly named in this
\* run, one code row for each previously named key whose code changed in
\* this run, and one FAILED QC row for each profile the quality filter
\* rejected.
C24_OutputListsNewChangedFailed ==
  rerun.done =>
    LET fin     == FinalizeCDCNames(rerun.run.ns, rerun.run.names)
        newly   == DOMAIN rerun.run.names \ DOMAIN rerun.loaded.names
        changed == {key \in DOMAIN rerun.oldNames :
                      fin[key] # rerun.oldNames[key]}
    IN  {<<r.key, r.failedQC>> : r \in rerun.output}
          = {<<key, FALSE>> : key \in newly \cup changed}
            \cup {<<key, TRUE>> : key \in rerun.run.belowQC}

\* C23: no step of a run with --nosave creates, changes or removes a file of
\* tree/current, the first run against an empty data directory included.
C23_NosaveTouchesNoFile ==
  [][saver'.nosave => treeDir' = treeDir]_vars

\* C25: UpdateNamed(key, newKey) for a named key: names maps newKey to the
\* path key had and, newKey being another key, no longer holds key; the
\* terminal node at that path lists newKey in the place of key; every node
\* along the path whose founder was key has the founder newKey; every other
\* key's path, every other node's founder and all node ids are as before.
\* For a key without a name nothing changes.
C25_RenameReplacesKey ==
  renamed.done =>
    LET key    == renamed.key
        newKey == renamed.newKey
    IN  IF key \notin DOMAIN renamed.was.names
        THEN renamed.names = renamed.was.names /\ renamed.ns = renamed.was.ns
        ELSE LET location == renamed.was.names[key]
                 terminal == Traverse(renamed.was.ns, 0, location)
                 onPath   == {Traverse(renamed.was.ns, 0, SubSeq(location, 1, i)) :
                                i \in 1..Len(location)}
                 founded  == {h \in onPath : renamed.was.ns[h].preferred = key}
             IN  /\ newKey \in DOMAIN renamed.names
                 /\ renamed.names[newKey] = location
                 /\ newKey # key => key \notin DOMAIN renamed.names
                 /\ Range(renamed.ns[terminal].named)
                      = (Range(renamed.was.ns[terminal].named) \ {key}) \cup {newKey}
                 /\ \A h \in founded : renamed.ns[h].preferred = newKey
                 /\ \A k \in DOMAIN renamed.was.names \ {key, newKey} :
                      k \in DOMAIN renamed.names
                      /\ renamed.names[k] = renamed.was.names[k]
                 /\ DOMAIN renamed.ns = DOMAIN renamed.was.ns
                 /\ \A h \in DOMAIN renamed.was.ns :
                      /\ renamed.ns[h].ID = renamed.was.ns[h].ID
                      /\ renamed.ns[h].parent = renamed.was.ns[h].parent
                      /\ h \notin founded =>
                           renamed.ns[h].preferred = renamed.was.ns[h].preferred

\* C26: when the new key matches several children of the current node, the
\* node that survives the merge, whose id goes into the new key's path, is
\* a matching child with the most members, and of those the one with the
\* smallest id.
C26_SurvivorIsLargestThenSmallestId ==
  last.kind = "placed" =>
    \A s \in MergeSteps(last) :
      LET most == SetMax({m.size : m \in s.matched})
          ids  == {m.id : m \in {x \in s.matched : x.size = most}}
      IN  names[last.key][s.level] = CHOOSE i \in ids : \A j \in ids : i <= j

\* C27: after a merge the surviving node has the founder it had before the
\* merge.
C27_SurvivorKeepsItsFounder ==
  last.kind = "placed" =>
    \A s \in MergeSteps(last) : nodes[s.node].preferred = s.founder

\* C28: a step changes the path of a named key only if it is a placement
\* with a merge that absorbed a node on that key's path: a placement without
\* a merge changes no path, and after a merge the keys under the surviving
\* node and the keys elsewhere keep their paths unless a deeper merge of the
\* same placement absorbed a node on their path.
C28_PathChangesOnlyUnderAbsorbed ==
  [][\A k \in DOMAIN names :
       (k \in DOMAIN names' /\ names'[k] # names[k]) =>
         /\ last'.kind = "placed"
         /\ \E s \in MergeSteps(last') :
              \E m \in s.matched :
                /\ m.h # s.node
                /\ m.h \in {Traverse(nodes, 0, SubSeq(names[k], 1, i)) :
                              i \in 1..Len(names[k])}]_vars

\* A placement with a merge after which one key that had a name when the
\* run began has another path, and one has the path it had.
C28_Witness ==
  /\ last.kind = "placed"
  /\ MergeSteps(last) # {}
  /\ \E k1, k2 \in DOMAIN TreeLoad(treeFile).names :
       /\ names[k1] # TreeLoad(treeFile).names[k1]
       /\ names[k2] = TreeLoad(treeFile).names[k2]

\* C29: no invocation removes the lock file while another invocation, having
\* passed lock acquisition, is in Setup or DoCalc.
C29_CleanupSparesRunningHolder ==
  [][\A p \in Procs :
       (lock /\ ~lock' /\ lpc'[p] # lpc[p]) =>
         \A q \in Procs \ {p} : lpc[q] \notin {"setup", "docalc"}]_vars

\* C30: at every point of a run, a save under way included, the keys of the
\* tree file on disk are the keys of the Profile Store on disk (calls.gzip
\* and index.gzip).
C30_DiskKeySetsAgree ==
  treeKeys = (IF callsGzip.exists THEN DictKeys(callsGzip.content) ELSE {})
             \cup (IF indexGzip.exists THEN DOMAIN indexGzip.content ELSE {})

\* C31: a node created by a placement never gets a path that denoted a
\* cluster when the run loaded the tree: under a parent, the id of a node
\* that a merge absorbed since is not given to a new node.
C31_AbsorbedIdNotReused ==
  last.kind = "placed" =>
    \A i \in 1..Len(last.steps) :
      last.steps[i].kind = "new" =>
        \A k \in DOMAIN TreeLoad(treeFile).names \ {last.key} :
          GetPart(TreeLoad(treeFile).names, k, last.steps[i].level)
            # PathTo(nodes, last.steps[i].node)

\* C32: IsInCluster(key, node, tau) is true when dist(key, founder) <= tau;
\* otherwise false when dist(key, founder) - diameter
\* - 2 * (100 - 100 * min_present) > tau; otherwise true exactly when some
\* member of the node is within tau of key.
C32_IsInClusterThreeCases ==
  probe.done =>
    LET node == probe.ns[probe.node]
        tau  == Tau(node.level)
        d    == KeyDistance(probe.calls, probe.key, node.preferred)
    IN  probe.isIn =
          IF d <= tau THEN TRUE
          ELSE IF d - node.diameter - 2 * (100 - corePercent) * Scale > tau THEN FALSE
          ELSE \E m \in Members(probe.ns, probe.node) :
                 KeyDistance(probe.calls, probe.key, m) <= tau

\* The key is farther than tau from the founder, is not rejected at once,
\* and is within tau of another member.
C32_Witness ==
  /\ probe.done
  /\ probe.isIn
  /\ KeyDistance(probe.calls, probe.key, probe.ns[probe.node].preferred)
       > Tau(probe.ns[probe.node].level)

\* C33: where a placement found no matching child at a level, the node on
\* the new key's path at that level has the id one above the largest id of
\* its siblings (1 without siblings), the new key as founder and diameter
\* 0, and every deeper level of the path is a new node with id 1; the first
\* key of an empty tree gets the path of DEPTH ones.
C33_NewChildNumbering ==
  last.kind = "placed" =>
    /\ \A i \in 1..Len(last.steps) :
         last.steps[i].kind = "new" =>
           LET level  == last.steps[i].level
               path   == names[last.key]
               h      == Traverse(nodes, 0, SubSeq(path, 1, level))
               others == Range(GetChildrenKeys(nodes, nodes[h].parent))
                           \ {nodes[h].ID}
           IN  /\ h # NoParent
               /\ path[level] = IF others = {} THEN 1 ELSE SetMax(others) + 1
               /\ nodes[h].preferred = last.key
               /\ nodes[h].diameter = 0
               /\ \A j \in (i + 1)..Len(last.steps) :
                    last.steps[j].kind = "new" /\ path[last.steps[j].level] = 1
    /\ DOMAIN names = {last.key} => names[last.key] = [l \in 1..DEPTH |-> 1]

\* A key that matched nothing at level 1 beside an existing cluster: its
\* level-1 id is 2 or more and its last id is 1.
C33_Witness ==
  /\ last.kind = "placed"
  /\ last.steps[1].kind = "new"
  /\ names[last.key][1] >= 2
  /\ names[last.key][DEPTH] = 1

\* C34: in a run that saves, at no point do more than the interval of the
\* intermittent saves (1000 keys) exist with a name in memory and not on
\* disk.
C34_UnsavedKeysBounded ==
  progress.named - progress.disk <= SaveEvery

\* C35: after every completed placement, every key whose path passes
\* through a node is within the node's diameter of the node's founder.
C35_DiameterCoversMembers ==
  pc # "aborted" =>
    \A h \in Levels(nodes) :
      \A m \in Members(nodes, h) :
        KeyDistance(calls, m, nodes[h].preferred) <= nodes[h].diameter

\* A merge has left a survivor with a diameter above 0 that one of its
\* members reaches.
C35_Witness ==
  /\ last.kind = "placed"
  /\ pc # "aborted"
  /\ \E s \in MergeSteps(last) :
       /\ nodes[s.node].diameter > 0
       /\ \E m \in Members(nodes, s.node) \ {last.key} :
            KeyDistance(calls, m, nodes[s.node].preferred) = nodes[s.node].diameter

\* C36: after any placements of accepted profiles, two keys that lie in
\* different children of one parent node are farther apart than the
\* threshold of the children's level, also when a merge brought the children
\* under one parent and when IsInCluster rejected a key at once.
C36_SiblingClustersApart ==
  pc # "aborted" =>
    \A h1, h2 \in Levels(nodes) :
      (h1 # h2 /\ nodes[h1].parent = nodes[h2].parent) =>
        \A m1 \in Members(nodes, h1), m2 \in Members(nodes, h2) :
          KeyDistance(calls, m1, m2) > Tau(nodes[h1].level)

\* C37: FinalizeCDCNames gives each named key its path cut to the level of
\* the deepest node on the path holding more than one child (the terminal
\* node: more than one key), the empty code when there is no such node, and
\* complete exactly when the code has all DEPTH levels, which is when the
\* terminal node holds two keys or more.
C37_CodeCutAtDeepestFork ==
  pc # "aborted" =>
    \A k \in DOMAIN names :
      LET onPath(l) == IF l = 0 THEN 0
                       ELSE Traverse(nodes, 0, SubSeq(names[k], 1, l))
          forks == {l \in 0..DEPTH : TotalChildCount(nodes, onPath(l)) > 1}
          cut == IF forks = {} THEN 0
                 ELSE CHOOSE l \in forks : \A m \in forks : m <= l
      IN  /\ k \in DOMAIN FinalizeCDCNames(nodes, names)
          /\ FinalizeCDCNames(nodes, names)[k]
               = Code(SubSeq(names[k], 1, cut), FALSE)
          /\ FinalizeComplete(nodes, names)[k] = (cut = DEPTH)
          /\ (cut = DEPTH) = (Len(nodes[onPath(DEPTH)].named) >= 2)

\* One tree holds a key with a full-length code, a key whose code is cut
\* inside the path, and a key with the empty code.
C37_Witness ==
  /\ pc # "aborted"
  /\ \E k1, k2, k3 \in DOMAIN names :
       /\ Len(FinalizeCDCNames(nodes, names)[k1].digits) = DEPTH
       /\ FinalizeComplete(nodes, names)[k1]
       /\ Len(FinalizeCDCNames(nodes, names)[k2].digits) \in 1..(DEPTH - 1)
       /\ ~FinalizeComplete(nodes, names)[k2]
       /\ Len(FinalizeCDCNames(nodes, names)[k3].digits) = 0

\* C38: a key that had a code before the run and has another one after it
\* gets a change record of type X when either code ends in x, else Extended
\* when the new code is longer and begins with the old one, else Merged@i
\* with i the first level at which the digits differ, else Other; a key whose
\* code is the same, or that had no code, gets no record.
C38_ChangeTypeFollowsCodes ==
  rerun.done =>
    \A key \in DOMAIN rerun.emitted :
      IF key \notin DOMAIN rerun.oldNames
      THEN key \notin DOMAIN rerun.changeTypes
      ELSE LET old   == rerun.oldNames[key]
               new   == rerun.emitted[key]
               both  == IF Len(old.digits) < Len(new.digits)
                        THEN Len(old.digits) ELSE Len(new.digits)
               diffs == {i \in 1..both : old.digits[i] # new.digits[i]}
           IN  IF old = new \/ (old.digits = <<>> /\ ~old.x)
               THEN key \notin DOMAIN rerun.changeTypes
               ELSE /\ key \in DOMAIN rerun.changeTypes
                    /\ rerun.changeTypes[key] =
                         IF old.x \/ new.x THEN [type |-> "X", at |-> 0]
                         ELSE IF /\ Len(new.digits) > Len(old.digits)
                                 /\ SubSeq(new.digits, 1, Len(old.digits)) = old.digits
                         THEN [type |-> "Extended", at |-> 0]
                         ELSE IF diffs # {}
                         THEN [type |-> "Merged",
                               at |-> CHOOSE i \in diffs : \A j \in diffs : i <= j]
                         ELSE [type |-> "Other", at |-> 0]

\* One run gives a key a record Merged@1 and leaves a key that has a code
\* without a record.
C38_Witness ==
  /\ rerun.done
  /\ \E k1, k3 \in DOMAIN rerun.oldNames :
       /\ k1 \in DOMAIN rerun.changeTypes
       /\ rerun.changeTypes[k1] = [type |-> "Merged", at |-> 1]
       /\ k3 \notin DOMAIN rerun.changeTypes
       /\ rerun.oldNames[k3].digits # <<>>

\* C39: a placement never shortens the code of a key named before it: the
\* code FinalizeCDCNames gives the key after the placement has at least as
\* many levels as the one it gave before (no code is excluded here).
C39_PlacementNeverShortensCode ==
  [][(last'.kind = "placed" /\ row' = row + 1 /\ pc' # "aborted") =>
       \A k \in DOMAIN names :
         /\ k \in DOMAIN FinalizeCDCNames(nodes', names')
         /\ Len(FinalizeCDCNames(nodes', names')[k].digits)
              >= Len(FinalizeCDCNames(nodes, names)[k].digits)]_vars

\* A placement has merged all the children of a node into one, and a key
\* named before it, whose code ended at that node, has a full-length code.
C39_Witness ==
  /\ last.kind = "placed"
  /\ pc # "aborted"
  /\ \E s \in MergeSteps(last) :
       /\ Cardinality(s.matched) >= 2
       /\ Len(nodes[nodes[s.node].parent].children) = 1
       /\ \E k \in Members(nodes, s.node) \ {last.key} :
            Len(FinalizeCDCNames(nodes, names)[k].digits) = DEPTH

\* C40: a batch row whose key has a name at load is dropped: the key keeps
\* its stored profile, also when the row carries another one, and a batch of
\* such rows leaves the names map and the tree as they were loaded.
C40_NamedRowIsDropped ==
  rerun.done =>
    /\ \A key \in DOMAIN rerun.loaded.names :
         /\ key \in DOMAIN rerun.run.calls
         /\ rerun.run.calls[key] = rerun.loaded.calls[key]
    /\ (rerun.extra = <<>> /\ KeyName(1) \in DOMAIN rerun.loaded.names) =>
         /\ rerun.run.names = rerun.loaded.names
         /\ TreeContent(rerun.run.ns, rerun.run.names)
              = TreeContent(rerun.loaded.ns, rerun.loaded.names)

\* The second run met a row of a named key that carries another profile,
\* one that passes CheckCore.
C40_Witness ==
  /\ rerun.done
  /\ rerun.other # <<>>
  /\ KeyName(1) \in DOMAIN rerun.loaded.names
  /\ CheckCore(rerun.other[1])
  /\ rerun.other[1] # rerun.loaded.calls[KeyName(1)]
  /\ Cardinality(DOMAIN rerun.loaded.names) >= 2

====
